---- MODULE Spec2Model ----
(***************************************************************************)
(* Iterative Quality Refinement engine                                     *)
(* (src/.autopilot/automation/iterative-refinement.js) and its pattern     *)
(* analyzer (src/.autopilot/automation/pattern-analyzer.js).               *)
(*                                                                         *)
(* Scores are integers.  Weights are kept in hundredths (0.35 -> 35), so   *)
(* the weighted mean is computed exactly; Math.round(x) is floor(x + 1/2). *)
(* A JavaScript value that may be a number, NaN or undefined is a record   *)
(* [tag, val].  A file's content is abstracted to the number of matches    *)
(* each check of the validators finds in it.                               *)
(***************************************************************************)
EXTENDS Integers, Sequences, FiniteSets, TLC

VARIABLES
    disk,       \* path -> file on disk (status and content)
    configFile, \* state of config/refinement-rules.json
    cacheFile,  \* state of cache/patterns.json
    mode,       \* "none" | "cli" (a CLI process) | "lib" (a process that required the module)
    config,     \* module variable config of the running module: the dimension
                \* weights in the validator, pattern_detection in the analyzer
    patterns,   \* module variable patterns (line 44)
    options,    \* the options of the last call
    results,    \* the last return value of validateFiles, or NoResults
    report,     \* the last return value of a direct validateFile call, or NoReport
    exitCode,   \* process exit code of the CLI run, NoExit while none
    session,    \* the caller-tracked refinement session
    now,        \* the clock, in hours (Date.now())
    cacheTime,  \* analyzed_at of the content of cache/patterns.json, in hours
    tree,       \* the directory tree collectFiles walks
    collected,  \* the last return value of collectFiles
    writer,     \* the process that is saving the cache with fs.writeFileSync
    observed,   \* what the last read of cache/patterns.json returned
    cacheRoot,  \* project_root of the content of cache/patterns.json
    sample,     \* the argument of the last call of an exported analyzer or validator
    profile,    \* the patterns that call was given, or the ones it built
    outcome     \* what that call returned

sourceVars == <<sample, profile, outcome>>

analyzerVars == <<now, cacheTime, tree, collected, writer, observed, cacheRoot,
                  sample, profile, outcome>>

vars == <<disk, configFile, cacheFile, mode, config, patterns,
          options, results, report, exitCode, session,
          now, cacheTime, tree, collected, writer, observed, cacheRoot,
          sample, profile, outcome>>

----------------------------------------------------------------------------
(* Bounds of the model *)

MaxFiles == 2          \* longest file list handed to a run
MaxIterArg == 2        \* largest --iteration / --max-iterations value tried
MaxFindings == 5       \* most check matches in one file of SpecScore

(* Program constants *)

DefaultThreshold == 75
DefaultIteration == 1
DefaultMaxIterations == 3
NoExit == -1

----------------------------------------------------------------------------
(* JavaScript values *)

JsInt(n) == [tag |-> "int", val |-> n]
NaN == [tag |-> "NaN", val |-> 0]
Undefined == [tag |-> "undefined", val |-> 0]

\* v is truthy: a number other than 0 (NaN and undefined are falsy)
Truthy(v) == v.tag = "int" /\ v.val # 0

\* v || d
OrElse(v, d) == IF Truthy(v) THEN v.val ELSE d

\* Math.round(num / den) for num >= 0, den > 0
Round(num, den) == (2 * num + den) \div (2 * den)

Max(a, b) == IF a >= b THEN a ELSE b
Min(a, b) == IF a <= b THEN a ELSE b

RECURSIVE SumSeq(_)
SumSeq(s) == IF s = <<>> THEN 0 ELSE Head(s) + SumSeq(Tail(s))

----------------------------------------------------------------------------
(* Files *)

Paths == {"a.js", "b.js"}

\* A file's content, as the validators see it: the number of matches of each
\* check.  The first seven count deviations from a loaded profile.
Clean ==
    [nameFile |-> 0, nameFuncs |-> 0, misplaced |-> 0, relOverAlias |-> 0,
     ungrouped |-> 0, underDocumented |-> 0, consoleCalls |-> 0,
     emptyCatch |-> 0, asyncNoCatch |-> 0,
     critical |-> 0, high |-> 0, medium |-> 0,
     lineCount |-> 1, maxNesting |-> 0, longLines |-> 0]

\* status: "ok" | "unreadable" (exists, readFileSync throws) | "missing" | "directory"
File(status, content) == [status |-> status, content |-> content]

\* fs.existsSync(f) && fs.statSync(f).isFile()
IsRegularFile(f) == f.status \in {"ok", "unreadable"}

----------------------------------------------------------------------------
(* Configuration and profile *)

Dimensions == {"consistency", "completeness", "security", "maintainability"}

\* let config = {}  (no quality_thresholds: no dimension weights)
EmptyConfig == [d \in {} |-> 0]

\* getDefaultConfig().quality_thresholds.dimensions, weights in hundredths
getDefaultConfig ==
    [d \in Dimensions |->
        CASE d = "consistency" -> 35
          [] d = "completeness" -> 25
          [] d = "security" -> 25
          [] d = "maintainability" -> 15]

\* a valid refinement-rules.json with weights of its own and a dimension the
\* validator does not score
CustomConfig ==
    [d \in {"consistency", "security", "performance"} |->
        CASE d = "consistency" -> 50
          [] d = "security" -> 30
          [] d = "performance" -> 20]

\* states of refinement-rules.json that parse: "valid" has the weights of
\* CustomConfig and no output section; the others add to it an output section
\* with pattern_cache_ttl_hours 0 or 2, or with save_pattern_cache false
ParsableConfigs == {"valid", "ttl0", "ttl2", "nosave"}

\* faulty variant: a config file that cannot be read or parsed leaves config empty
loadConfigNoFallback(cf) ==
    CASE cf \in ParsableConfigs -> CustomConfig
      [] cf = "absent" -> getDefaultConfig
      [] cf = "corrupt" -> EmptyConfig

\* loadConfig(): the config file parsed, the defaults when it is absent or
\* when reading or parsing it throws
loadConfig(cf) ==
    CASE cf \in ParsableConfigs -> CustomConfig
      [] cf = "absent" -> getDefaultConfig
      [] cf = "corrupt" -> getDefaultConfig

\* the module variable patterns: "unset" is {}, "empty" is {patterns: {}},
\* "profile" is a loaded profile whose dominant patterns are all confident
HasProfile(pat) == pat = "profile"

\* patterns.patterns has the category: a "partial" profile has naming only
Knows(pat, category) == HasProfile(pat) \/ (pat = "partial" /\ category = "naming")

----------------------------------------------------------------------------
(* Pattern analyzer: the persisted profile (pattern-analyzer.js) *)

DefaultTTLHours == 24

Categories == {"naming", "structure", "imports", "error_handling", "comments", "testing"}

\* The content of cache/patterns.json, by what JSON.parse makes of it:
\*   "absent"   no file                "corrupt"  text that does not parse
\*   "null"     the JSON value null    "bare"     a value with neither analyzed_at nor patterns
\*   "dated"    an object with analyzed_at and without patterns
\*   "partial"  a profile with analyzed_at and the naming category only
\*   "profile"  a profile with analyzed_at and all six categories
\* While fs.writeFileSync is at work the file is "truncated" (empty) or
\* "torn" (a proper prefix of the text being written); neither parses.
CacheContents == {"absent", "corrupt", "null", "bare", "dated", "partial", "profile"}

\* JSON.parse(fs.readFileSync(cachePath)) returns
Parses(c) == c \notin {"absent", "corrupt", "truncated", "torn"}

\* cached.analyzed_at is a date
HasDate(c) == c \in {"dated", "partial", "profile"}

\* Object.keys(cached.patterns)
CategoriesOf(c) ==
    IF c = "profile" THEN Categories ELSE IF c = "partial" THEN {"naming"} ELSE {}

\* the analyzer's loadConfig(): config.output, the analyzer's defaults (no
\* output section) when the file is absent or does not parse
loadAnalyzerConfig(cf) ==
    CASE cf = "ttl0" -> [ttlHours |-> JsInt(0), save |-> TRUE]
      [] cf = "ttl2" -> [ttlHours |-> JsInt(2), save |-> TRUE]
      [] cf = "nosave" -> [ttlHours |-> Undefined, save |-> FALSE]
      [] OTHER -> [ttlHours |-> Undefined, save |-> TRUE]

\* (config.output?.pattern_cache_ttl_hours || 24), in hours
CacheTTL(acfg) == OrElse(acfg.ttlHours, DefaultTTLHours)

\* the project root of a cache content that names none
NoRoot == "none"

\* process.cwd(), the default of --project
Cwd == "/p"

\* analyzeCodebase(projectRoot, options) at time t over the cache (cache, ctime,
\* croot): the returned profile and the cache it leaves.  opts = [refresh,
\* category, writable]; category "all" is no --category, writable is whether
\* fs.writeFileSync succeeds.
analyzeCodebase(projectRoot, cache, ctime, croot, t, cf, opts) ==
    LET acfg == loadAnalyzerConfig(cf)
        \* JSON.parse throws on text that does not parse and cached.analyzed_at
        \* throws on null: both are caught; without analyzed_at the age is NaN
        hit == /\ ~opts.refresh
               /\ cache # "absent"
               /\ Parses(cache) /\ cache # "null"
               /\ HasDate(cache)
               /\ t - ctime < CacheTTL(acfg)
        built == IF opts.category = "all" THEN "profile" ELSE "partial"
        saved == acfg.save /\ opts.writable
    IN  IF hit
        THEN [profile |-> cache, analyzed_at |-> ctime, project_root |-> croot,
              rebuilt |-> FALSE, saved |-> FALSE,
              cacheFile |-> cache, cacheTime |-> ctime, cacheRoot |-> croot]
        ELSE [profile |-> built, analyzed_at |-> t, project_root |-> projectRoot,
              rebuilt |-> TRUE, saved |-> saved,
              cacheFile |-> IF saved THEN built ELSE cache,
              cacheTime |-> IF saved THEN t ELSE ctime,
              cacheRoot |-> IF saved THEN projectRoot ELSE croot]

----------------------------------------------------------------------------
(* Validators: each starts at 100, subtracts per match, floors at 0 *)

validateNaming(c, pat) ==
    LET d == IF Knows(pat, "naming") THEN 15 * c.nameFile + 5 * c.nameFuncs ELSE 0
    IN Max(0, 100 - d)

validateImports(c, pat) ==
    LET d == IF Knows(pat, "imports") THEN 10 * c.relOverAlias + 5 * c.ungrouped ELSE 0
    IN Max(0, 100 - d)

validateStructure(c, pat) ==
    LET d == IF Knows(pat, "structure") THEN 20 * c.misplaced ELSE 0
    IN Max(0, 100 - d)

validateComments(c, pat) ==
    LET d == IF Knows(pat, "comments") THEN 15 * c.underDocumented ELSE 0
    IN Max(0, 100 - d)

validateErrorHandling(c, pat) ==
    LET d == 15 * c.emptyCatch
             + (IF Knows(pat, "error_handling") THEN 5 * c.consoleCalls ELSE 0)
             + 10 * c.asyncNoCatch
    IN Max(0, 100 - d)

\* faulty variant: the security score is not floored at 0
validateSecurityNoFloor(c) ==
    100 - (25 * c.critical + 15 * c.high + 10 * c.medium)

\* severityScores = { critical: 25, high: 15, medium: 10, low: 5 }
validateSecurity(c) ==
    Max(0, 100 - (25 * c.critical + 15 * c.high + 10 * c.medium))

validateMaintainability(c) ==
    LET size == IF c.lineCount > 500 THEN 15
                ELSE IF c.lineCount > 300 THEN 5 ELSE 0
        nest == IF c.maxNesting > 5 THEN 15
                ELSE IF c.maxNesting > 4 THEN 5 ELSE 0
        long == IF c.longLines > 0 THEN Min(10, c.longLines * 2) ELSE 0
    IN Max(0, 100 - size - nest - long)

\* the validators of each dimension, in the order of the validations object
Validators(c, pat) ==
    [d \in Dimensions |->
        CASE d = "consistency" ->
               <<validateNaming(c, pat), validateImports(c, pat), validateStructure(c, pat)>>
          [] d = "completeness" ->
               <<validateComments(c, pat), validateErrorHandling(c, pat)>>
          [] d = "security" -> <<validateSecurity(c)>>
          [] d = "maintainability" -> <<validateMaintainability(c)>>]

\* result.scores[dimension] = Math.round(mean of the validators' scores)
DimensionScores(c, pat) ==
    [d \in Dimensions |-> Round(SumSeq(Validators(c, pat)[d]), Len(Validators(c, pat)[d]))]

\* the dimensions of the config that were scored
Weighted(cfg) == DOMAIN cfg \cap Dimensions

RECURSIVE SumOver(_, _)
SumOver(S, f) ==
    IF S = {} THEN 0
    ELSE LET x == CHOOSE y \in S : TRUE IN f[x] + SumOver(S \ {x}, f)

\* faulty variant: the weighted mean is cut to an integer, not rounded
OverallScoreTruncated(scores, cfg) ==
    LET weightedSum == SumOver(Weighted(cfg), [d \in Weighted(cfg) |-> scores[d] * cfg[d]])
        totalWeight == SumOver(Weighted(cfg), cfg)
    IN IF totalWeight > 0 THEN weightedSum \div totalWeight ELSE 0

\* result.overall_score: the weighted mean, 0 when no weight counts
OverallScore(scores, cfg) ==
    LET weightedSum == SumOver(Weighted(cfg), [d \in Weighted(cfg) |-> scores[d] * cfg[d]])
        totalWeight == SumOver(Weighted(cfg), cfg)
    IN IF totalWeight > 0 THEN Round(weightedSum, totalWeight) ELSE 0

\* result.passed = result.overall_score >= (options.threshold || 75)
Passed(score, threshold) == score >= OrElse(threshold, DefaultThreshold)

NoScores == [d \in {} |-> 0]

\* faulty variant: a file that cannot be read is reported as passed
validateFileSilentPass(path, f, cfg, pat, opts) ==
    IF f.status = "ok" /\ pat # "null"
    THEN LET scores == DimensionScores(f.content, pat)
             overall == OverallScore(scores, cfg)
         IN [file |-> path, error |-> FALSE, scores |-> scores,
             subscores |-> Validators(f.content, pat),
             overall_score |-> overall,
             passed |-> Passed(overall, opts.threshold)]
    ELSE [file |-> path, error |-> TRUE, scores |-> NoScores,
          subscores |-> NoScores,
          overall_score |-> 0, passed |-> TRUE]

\* validateFile(filePath, projectRoot, options) with the module state (cfg, pat):
\* the catch takes a failed read and the TypeError of patterns.patterns when
\* patterns is null
validateFile(path, f, cfg, pat, opts) ==
    IF f.status = "ok" /\ pat # "null"
    THEN LET scores == DimensionScores(f.content, pat)
             overall == OverallScore(scores, cfg)
         IN [file |-> path, error |-> FALSE, scores |-> scores,
             subscores |-> Validators(f.content, pat),
             overall_score |-> overall,
             passed |-> Passed(overall, opts.threshold)]
    ELSE [file |-> path, error |-> TRUE, scores |-> NoScores,
          subscores |-> NoScores,
          overall_score |-> 0, passed |-> FALSE]

----------------------------------------------------------------------------
(* Refinement orchestrator *)

NoResults == [present |-> FALSE]
NoReport == [present |-> FALSE]

\* results.summary.all_passed = results.summary.failed === 0
AllPassed(failed) == failed = 0

\* faulty variant: the last allowed iteration still asks for refinement
NeedsRefinementInclusive(allPassed, iteration, maxIterations) ==
    ~allPassed /\ iteration <= maxIterations

\* faulty variant: refinement is asked for whether or not every file passed
NeedsRefinementAlways(allPassed, iteration, maxIterations) ==
    iteration < maxIterations

\* results.summary.needs_refinement
NeedsRefinement(allPassed, iteration, maxIterations) ==
    ~allPassed /\ iteration < maxIterations

\* faulty variant: the average is truncated
AverageScoreTruncated(totalScore, n) == IF n > 0 THEN totalScore \div n ELSE 0

\* results.summary.average_score
AverageScore(totalScore, n) == IF n > 0 THEN Round(totalScore, n) ELSE 0

\* faulty variant: the failed reports are listed before the passed ones
validateFilesFailedFirst(files, dsk, cfg, pat, opts) ==
    LET reports == [i \in 1..Len(files) |->
                        validateFile(files[i], dsk[files[i]], cfg, pat, opts)]
        passed == Cardinality({i \in 1..Len(files) : reports[i].passed})
        failed == Cardinality({i \in 1..Len(files) : ~reports[i].passed})
        totalScore == SumSeq([i \in 1..Len(files) |-> reports[i].overall_score])
        iteration == OrElse(opts.iteration, DefaultIteration)
        maxIterations == OrElse(opts.maxIterations, DefaultMaxIterations)
        allPassed == AllPassed(failed)
    IN [present |-> TRUE,
        summary |-> [total_files |-> Len(files),
                     passed |-> passed,
                     failed |-> failed,
                     average_score |-> AverageScore(totalScore, Len(files)),
                     iteration |-> iteration,
                     max_iterations |-> maxIterations,
                     threshold |-> OrElse(opts.threshold, DefaultThreshold),
                     all_passed |-> allPassed,
                     needs_refinement |-> NeedsRefinement(allPassed, iteration, maxIterations)],
        files |-> SelectSeq(reports, LAMBDA r : ~r.passed)
                  \o SelectSeq(reports, LAMBDA r : r.passed)]

\* validateFiles(files, projectRoot, options) over the disk dsk with the module
\* state (cfg, pat): one report per file, in the order of files
validateFiles(files, dsk, cfg, pat, opts) ==
    LET reports == [i \in 1..Len(files) |->
                        validateFile(files[i], dsk[files[i]], cfg, pat, opts)]
        passed == Cardinality({i \in 1..Len(files) : reports[i].passed})
        failed == Cardinality({i \in 1..Len(files) : ~reports[i].passed})
        totalScore == SumSeq([i \in 1..Len(files) |-> reports[i].overall_score])
        iteration == OrElse(opts.iteration, DefaultIteration)
        maxIterations == OrElse(opts.maxIterations, DefaultMaxIterations)
        allPassed == AllPassed(failed)
    IN [present |-> TRUE,
        summary |-> [total_files |-> Len(files),
                     passed |-> passed,
                     failed |-> failed,
                     average_score |-> AverageScore(totalScore, Len(files)),
                     iteration |-> iteration,
                     max_iterations |-> maxIterations,
                     threshold |-> OrElse(opts.threshold, DefaultThreshold),
                     all_passed |-> allPassed,
                     needs_refinement |-> NeedsRefinement(allPassed, iteration, maxIterations)],
        files |-> reports]

----------------------------------------------------------------------------
(* Command line *)

\* the value given to a numeric flag: absent, or what parseInt makes of it
Absent == [tag |-> "absent", val |-> 0]

\* parseArgs(args): a flag that is absent keeps its default, a flag that is
\* given holds parseInt of its value, a number or NaN
parseArgs(argv) ==
    [threshold |-> IF argv.threshold = Absent THEN JsInt(DefaultThreshold) ELSE argv.threshold,
     iteration |-> IF argv.iteration = Absent THEN JsInt(DefaultIteration) ELSE argv.iteration,
     maxIterations |-> IF argv.maxIterations = Absent THEN JsInt(DefaultMaxIterations)
                       ELSE argv.maxIterations,
     autoAnalyze |-> argv.autoAnalyze,
     files |-> argv.files]

\* loadPatterns(patternsPath): true and the parsed cache when the file exists
\* and parses, false (patterns untouched) when it is absent or does not parse
loadPatterns(cache) ==
    IF Parses(cache) THEN [ok |-> TRUE, patterns |-> cache]
    ELSE [ok |-> FALSE, patterns |-> "unset"]

\* files.filter(f => fs.existsSync(f) && fs.statSync(f).isFile())
ResolveFiles(files, dsk) ==
    LET keep(p) == IsRegularFile(dsk[p]) IN SelectSeq(files, keep)

\* faulty variant: exit 1 only while refinement is still possible
ExitCodeByRefinement(summary) == IF summary.needs_refinement THEN 1 ELSE 0

\* process.exit(results.summary.all_passed ? 0 : 1)
ExitCode(summary) == IF summary.all_passed THEN 0 ELSE 1

Exited(code, opts, cfg, pat, res, cache) ==
    [exitCode |-> code, options |-> opts, config |-> cfg, patterns |-> pat, results |-> res,
     cacheFile |-> cache.cacheFile, cacheTime |-> cache.cacheTime,
     cacheRoot |-> cache.cacheRoot]

\* main(): the whole CLI run.  env = [disk, configFile, cacheFile, cacheTime,
\* cacheRoot, now, analyzer, gitDiff]; options.projectRoot is process.cwd()
main(argv, env) ==
    LET opts == parseArgs(argv)
        cfg == loadConfig(env.configFile)
        loaded == loadPatterns(env.cacheFile)
        analyze == ~loaded.ok /\ opts.autoAnalyze
        before == [cacheFile |-> env.cacheFile, cacheTime |-> env.cacheTime,
                   cacheRoot |-> env.cacheRoot]
        \* analyzeCodebase(options.projectRoot, {output, verbose})
        analysis == analyzeCodebase(Cwd, env.cacheFile, env.cacheTime, env.cacheRoot,
                                    env.now, env.configFile,
                                    [refresh |-> FALSE, category |-> "all", writable |-> TRUE])
        after == IF analyze THEN analysis ELSE before
        pat == IF loaded.ok THEN loaded.patterns
               ELSE IF opts.autoAnalyze THEN analysis.profile ELSE "empty"
        useGit == opts.files = <<>>
        listed == IF useGit THEN env.gitDiff.files ELSE opts.files
        files == ResolveFiles(listed, env.disk)
        res == validateFiles(files, env.disk, cfg, pat, opts)
    IN  IF argv.help THEN Exited(0, opts, EmptyConfig, "unset", NoResults, before)
        ELSE IF analyze /\ env.analyzer = "throws"
             THEN Exited(2, opts, cfg, "unset", NoResults, before)
        ELSE IF useGit /\ ~env.gitDiff.ok THEN Exited(2, opts, cfg, pat, NoResults, after)
        ELSE IF files = <<>> THEN Exited(0, opts, cfg, pat, NoResults, after)
        ELSE Exited(ExitCode(res.summary), opts, cfg, pat, res, after)

----------------------------------------------------------------------------
(* Inputs *)

\* five hardcoded secrets: security 0, overall 75 under the default weights
FiveSecrets == [Clean EXCEPT !.critical = 5]

\* five secrets and two empty catch blocks: overall 71 under the default weights
SecretsAndCatches == [Clean EXCEPT !.critical = 5, !.emptyCatch = 2]

\* a file that deviates from the profile: misnamed, twenty misnamed functions
OffProfile == [Clean EXCEPT !.nameFile = 1, !.nameFuncs = 20, !.misplaced = 1]

SampleFiles ==
    {File("ok", Clean), File("ok", FiveSecrets), File("ok", SecretsAndCatches),
     File("ok", OffProfile),
     File("unreadable", Clean), File("missing", Clean), File("directory", Clean)}

\* what the second path holds
SecondFiles == {File("ok", Clean), File("ok", SecretsAndCatches), File("unreadable", Clean)}

Disks == {d \in [Paths -> SampleFiles] : d["b.js"] \in SecondFiles}

ConfigFileStates == {"absent", "corrupt", "valid"}
CacheFileStates == {"absent", "profile"}

\* file lists of at most MaxFiles paths, no path twice
FileLists ==
    UNION {{l \in [1..n -> Paths] : \A i, j \in 1..n : l[i] = l[j] => i = j} :
              n \in 0..MaxFiles}

\* values of --threshold
ThresholdArgs == {Absent, NaN, JsInt(0), JsInt(76), JsInt(101)}

\* values of --iteration and --max-iterations
IterationArgs == {Absent, NaN} \cup {JsInt(n) : n \in 0..MaxIterArg}

HelpArgv ==
    [threshold |-> Absent, iteration |-> Absent, maxIterations |-> Absent,
     autoAnalyze |-> FALSE, files |-> <<>>, help |-> TRUE]

\* command lines: the threshold varies with the iteration flags absent, or the
\* iteration flags vary with the threshold absent
Argv ==
    {HelpArgv}
    \cup [threshold : ThresholdArgs, iteration : {Absent}, maxIterations : {Absent},
          autoAnalyze : BOOLEAN, files : FileLists, help : {FALSE}]
    \cup [threshold : {Absent}, iteration : IterationArgs, maxIterations : IterationArgs,
          autoAnalyze : {FALSE}, files : FileLists, help : {FALSE}]

\* what `git diff --name-only` yields when no file is given
GitOutcomes == {[ok |-> FALSE, files |-> <<>>], [ok |-> TRUE, files |-> <<>>],
                [ok |-> TRUE, files |-> <<"a.js">>]}

AnalyzerOutcomes == {"ok", "throws"}

\* options of a call through the module export
LibOptions ==
    [threshold : {Undefined, JsInt(0)},
     iteration : {Undefined, JsInt(MaxIterArg)},
     maxIterations : {Undefined, JsInt(1)},
     autoAnalyze : {FALSE}, files : {<<>>}]

NoSession ==
    [status |-> "NONE", iteration |-> 0, maxIterations |-> 0, invocations |-> 0,
     files |-> <<>>]

\* no clock tick, no tree walked, nobody writing or reading the cache
NoTree == [files |-> {}, unreadable |-> {}]
NoWriter == [pc |-> "idle"]
NoRead == [content |-> "absent", time |-> 0, at |-> 0]

\* no exported analyzer or validator called on its own
NoCall == [present |-> FALSE]

SourceIdle ==
    /\ sample = NoCall
    /\ profile = NoCall
    /\ outcome = NoCall

AnalyzerIdle ==
    /\ now = 0
    /\ cacheTime = 0
    /\ tree = NoTree
    /\ collected = <<>>
    /\ writer = NoWriter
    /\ observed = NoRead
    /\ cacheRoot = Cwd
    /\ SourceIdle

----------------------------------------------------------------------------
(* The CLI and the module export *)

Init ==
    /\ disk \in Disks
    /\ configFile \in ConfigFileStates
    /\ cacheFile \in CacheFileStates
    /\ mode = "none"
    /\ config = EmptyConfig
    /\ patterns = "unset"
    /\ options = parseArgs(HelpArgv)
    /\ results = NoResults
    /\ report = NoReport
    /\ exitCode = NoExit
    /\ session = NoSession
    /\ AnalyzerIdle

\* node iterative-refinement.js argv: main() runs to process.exit
RunMain ==
    /\ mode = "none"
    /\ \E argv \in Argv, git \in GitOutcomes, an \in AnalyzerOutcomes :
         /\ (argv.files # <<>> \/ argv.help) => git = [ok |-> TRUE, files |-> <<>>]
         /\ (cacheFile = "profile" \/ ~argv.autoAnalyze) => an = "ok"
         /\ \E out \in {main(argv, [disk |-> disk, configFile |-> configFile,
                                    cacheFile |-> cacheFile, cacheTime |-> cacheTime,
                                    cacheRoot |-> cacheRoot,
                                    now |-> now, analyzer |-> an,
                                    gitDiff |-> git])} :
               /\ mode' = "cli"
               /\ options' = out.options
               /\ config' = out.config
               /\ patterns' = out.patterns
               /\ results' = out.results
               /\ exitCode' = out.exitCode
               /\ cacheFile' = out.cacheFile
               /\ cacheTime' = out.cacheTime
               /\ cacheRoot' = out.cacheRoot
    /\ UNCHANGED <<disk, configFile, report, session, now, tree, collected, writer, observed>>
    /\ UNCHANGED sourceVars

\* require('./iterative-refinement.js'): the module variables keep their
\* initial values, main() does not run and nothing exported sets them
RequireModule ==
    /\ mode = "none"
    /\ mode' = "lib"
    /\ config' = EmptyConfig
    /\ patterns' = "unset"
    /\ UNCHANGED <<disk, configFile, cacheFile, options, results, report, exitCode, session>>
    /\ UNCHANGED analyzerVars

\* a call of the exported validateFiles
CallValidateFiles ==
    /\ mode = "lib"
    /\ ~results.present /\ ~report.present
    /\ \E files \in FileLists, opts \in LibOptions :
         /\ options' = [opts EXCEPT !.files = files]
         /\ results' = validateFiles(files, disk, config, patterns, opts)
    /\ UNCHANGED <<disk, configFile, cacheFile, mode, config, patterns, report, exitCode, session>>
    /\ UNCHANGED analyzerVars

\* a call of the exported validateFile
CallValidateFile ==
    /\ mode = "lib"
    /\ ~results.present /\ ~report.present
    /\ \E p \in Paths, opts \in LibOptions :
         /\ options' = [opts EXCEPT !.files = <<p>>]
         /\ report' = [present |-> TRUE,
                       file |-> validateFile(p, disk[p], config, patterns, opts)]
    /\ UNCHANGED <<disk, configFile, cacheFile, mode, config, patterns, results, exitCode, session>>
    /\ UNCHANGED analyzerVars

Next == RunMain \/ RequireModule \/ CallValidateFiles \/ CallValidateFile

Spec == Init /\ [][Next]_vars

----------------------------------------------------------------------------
(* A refinement session: the caller runs the CLI with --iteration 1, applies
   fixes, and runs it again with the next iteration while the summary asks
   for refinement *)

SessionFiles == SecondFiles

InitSession ==
    /\ disk \in [Paths -> SessionFiles]
    /\ configFile = "absent"
    /\ cacheFile = "absent"
    /\ mode = "none"
    /\ config = EmptyConfig
    /\ patterns = "unset"
    /\ options = parseArgs(HelpArgv)
    /\ results = NoResults
    /\ report = NoReport
    /\ exitCode = NoExit
    /\ session = NoSession
    /\ AnalyzerIdle

\* PASSED | NEEDS_REFINEMENT | ESCALATED, as read from a summary
SessionOutcome(summary) ==
    IF summary.all_passed THEN "PASSED"
    ELSE IF summary.needs_refinement THEN "NEEDS_REFINEMENT"
    ELSE "ESCALATED"

StartSession ==
    /\ session.status = "NONE"
    /\ \E m \in 1..MaxIterArg, files \in FileLists \ {<<>>} :
         session' = [status |-> "PENDING", iteration |-> 1, maxIterations |-> m,
                     invocations |-> 0, files |-> files]
    /\ UNCHANGED <<disk, configFile, cacheFile, mode, config, patterns, options,
                   results, report, exitCode>>
    /\ UNCHANGED analyzerVars

\* the caller edits a file between two runs
EditFile ==
    /\ session.status = "NEEDS_REFINEMENT"
    /\ \E p \in Paths, f \in SessionFiles : disk' = [disk EXCEPT ![p] = f]
    /\ UNCHANGED <<configFile, cacheFile, mode, config, patterns, options,
                   results, report, exitCode, session>>
    /\ UNCHANGED analyzerVars

\* one run of the CLI for the session's current iteration
Invoke ==
    /\ session.status \in {"PENDING", "NEEDS_REFINEMENT"}
    /\ \E out \in {main([threshold |-> Absent,
                          iteration |-> JsInt(session.iteration),
                          maxIterations |-> JsInt(session.maxIterations),
                          autoAnalyze |-> FALSE, files |-> session.files, help |-> FALSE],
                         [disk |-> disk, configFile |-> configFile,
                          cacheFile |-> cacheFile, cacheTime |-> cacheTime,
                          cacheRoot |-> cacheRoot,
                          now |-> now, analyzer |-> "ok",
                          gitDiff |-> [ok |-> TRUE, files |-> <<>>]])} :
       LET next == SessionOutcome(out.results.summary)
       IN /\ mode' = "cli"
          /\ options' = out.options
          /\ config' = out.config
          /\ patterns' = out.patterns
          /\ results' = out.results
          /\ exitCode' = out.exitCode
          /\ session' = [session EXCEPT
                            !.status = next,
                            !.invocations = @ + 1,
                            !.iteration = IF next = "NEEDS_REFINEMENT" THEN @ + 1 ELSE @]
    /\ UNCHANGED <<disk, configFile, cacheFile, report>>
    /\ UNCHANGED analyzerVars

NextSession == StartSession \/ EditFile \/ Invoke

SpecSession == InitSession /\ [][NextSession]_vars

----------------------------------------------------------------------------
(* Pattern analyzer: file collection.  A path is the sequence of names from
   the project root; a tree is the set of its files (its directories are the
   proper prefixes of their paths) and the set of directories whose
   fs.readdirSync throws. *)

DefaultMaxFiles == 500
MaxWalkDepth == 10

\* the names of the model, in the order fs.readdirSync lists them
NameOrder ==
    <<".cache", ".git", "a.js", "b.js", "b.min.js", "d", "h.js", "k.js", "lib", "m.js",
      "node_modules", "x.js", "y.js">>

\* dirName.startsWith('.')
StartsWithDot(name) == name \in {".cache", ".git"}

\* fileName.endsWith('.min.js')
EndsWithMinJs(name) == name \in {"b.min.js"}

\* config.pattern_detection of getDefaultConfig() in pattern-analyzer.js
DefaultDetection ==
    [skipDirs |-> {"node_modules", "vendor", "dist", "build", ".git"},
     skipFiles |-> {"*.min.js", "*.min.css", "*.map", "*.lock"},
     maxFiles |-> JsInt(DefaultMaxFiles)]

\* let config = {} in pattern-analyzer.js: what collectFiles reads when it
\* is called through the module export
NoDetection == [skipDirs |-> {}, skipFiles |-> {}, maxFiles |-> Undefined]

\* config.pattern_detection?.max_files_to_scan || 500
MaxFilesOf(cfg) == OrElse(cfg.maxFiles, DefaultMaxFiles)

\* skipDirs.some(skip => dirName === skip || dirName.startsWith('.'))
shouldSkipDir(name, skipDirs) ==
    \E skip \in skipDirs : name = skip \/ StartsWithDot(name)

\* skipFiles.some(pattern => pattern.startsWith('*')
\*     ? fileName.endsWith(pattern.slice(1)) : fileName === pattern)
shouldSkipFile(name, skipFiles) ==
    \E pattern \in skipFiles :
        IF pattern = "*.min.js" THEN EndsWithMinJs(name)
        ELSE IF pattern \in {"*.min.css", "*.map", "*.lock"} THEN FALSE
        ELSE name = pattern

IsPrefix(p, q) == Len(p) <= Len(q) /\ SubSeq(q, 1, Len(p)) = p

\* entry.isDirectory()
IsDirectory(tr, p) == \E f \in tr.files : Len(p) < Len(f) /\ IsPrefix(p, f)

\* fs.readdirSync(dir, { withFileTypes: true }): the names under dir
Entries(tr, dir) ==
    LET under(name) == \E f \in tr.files : IsPrefix(Append(dir, name), f)
    IN SelectSeq(NameOrder, under)

RECURSIVE walk(_, _, _, _, _)
RECURSIVE walkEntries(_, _, _, _, _, _)

\* walk(dir, depth): files is the list collected so far; a readdirSync that
\* throws is caught and logged, and the walk of the parent goes on
walk(tr, cfg, dir, depth, files) ==
    IF Len(files) >= MaxFilesOf(cfg) THEN files
    ELSE IF depth > MaxWalkDepth THEN files
    ELSE IF dir \in tr.unreadable THEN files
    ELSE walkEntries(tr, cfg, dir, depth, Entries(tr, dir), files)

\* the for loop of walk over the entries of dir
walkEntries(tr, cfg, dir, depth, entries, files) ==
    IF entries = <<>> \/ Len(files) >= MaxFilesOf(cfg) THEN files
    ELSE LET name == Head(entries)
             fullPath == Append(dir, name)
             pushed ==
                 IF IsDirectory(tr, fullPath)
                 THEN IF shouldSkipDir(name, cfg.skipDirs) THEN files
                      ELSE walk(tr, cfg, fullPath, depth + 1, files)
                 ELSE IF shouldSkipFile(name, cfg.skipFiles) THEN files
                      ELSE Append(files, fullPath)
         IN walkEntries(tr, cfg, dir, depth, Tail(entries), pushed)

\* faulty variant: a directory that cannot be read aborts the collection
collectFilesAborting(tr, cfg) ==
    IF tr.unreadable # {} THEN <<>> ELSE walk(tr, cfg, <<>>, 0, <<>>)

\* collectFiles(projectRoot): the paths of the records returned, in order
collectFiles(tr, cfg) == walk(tr, cfg, <<>>, 0, <<>>)

----------------------------------------------------------------------------
(* The cache over time: runs of the analyzer (node pattern-analyzer.js, or
   the exported analyzeCodebase) and runs of the validator on one cache file,
   while the clock advances *)

MaxClock == 2

\* analyzed_at of the cache at the start: a day and an hour ago, a day ago,
\* 23 hours ago, an hour ago, now, an hour ahead
CacheTimes ==
    {0 - DefaultTTLHours - 1, 0 - DefaultTTLHours, 1 - DefaultTTLHours, -1, 0, 1}

AnalyzerConfigFiles == {"absent", "ttl0", "ttl2", "nosave"}

\* --refresh, --category naming, and whether the cache file can be written
AnalyzeOptions == [refresh : BOOLEAN, category : {"all", "naming"}, writable : BOOLEAN]

\* a.js departs from the profile's naming and import conventions
CacheDisk == [p \in Paths |-> IF p = "a.js" THEN File("ok", OffProfile) ELSE File("ok", Clean)]

InitCache ==
    /\ disk = CacheDisk
    /\ configFile \in AnalyzerConfigFiles
    /\ cacheFile \in CacheContents
    /\ cacheTime \in IF HasDate(cacheFile) THEN CacheTimes ELSE {0}
    /\ now = 0
    /\ mode = "none"
    /\ config = EmptyConfig
    /\ patterns = "unset"
    /\ options = parseArgs(HelpArgv)
    /\ results = NoResults
    /\ report = NoReport
    /\ exitCode = NoExit
    /\ session = NoSession
    /\ tree = NoTree
    /\ collected = <<>>
    /\ writer = NoWriter
    /\ observed = NoRead
    /\ cacheRoot = Cwd
    /\ SourceIdle

\* an hour passes
Tick ==
    /\ now < MaxClock
    /\ now' = now + 1
    /\ UNCHANGED <<disk, configFile, cacheFile, mode, config, patterns, options, results,
                   report, exitCode, session, cacheTime, tree, collected, writer, observed,
                   cacheRoot>>
    /\ UNCHANGED sourceVars

\* one run of analyzeCodebase
Analyze ==
    /\ \E opts \in AnalyzeOptions :
         \E out \in {analyzeCodebase(Cwd, cacheFile, cacheTime, cacheRoot, now,
                                     configFile, opts)} :
            /\ mode' = "analyzer"
            /\ options' = opts
            /\ results' = [present |-> TRUE, profile |-> out.profile,
                           analyzed_at |-> out.analyzed_at,
                           rebuilt |-> out.rebuilt, saved |-> out.saved]
            /\ observed' = [content |-> cacheFile, time |-> cacheTime, at |-> now]
            /\ cacheFile' = out.cacheFile
            /\ cacheTime' = out.cacheTime
            /\ cacheRoot' = out.cacheRoot
    /\ UNCHANGED <<disk, configFile, config, patterns, report, exitCode, session,
                   now, tree, collected, writer>>
    /\ UNCHANGED sourceVars

\* one run of node iterative-refinement.js [--auto-analyze] a.js
Validate ==
    /\ \E auto \in BOOLEAN :
         \E out \in {main([threshold |-> Absent, iteration |-> Absent,
                           maxIterations |-> Absent, autoAnalyze |-> auto,
                           files |-> <<"a.js">>, help |-> FALSE],
                          [disk |-> disk, configFile |-> configFile,
                           cacheFile |-> cacheFile, cacheTime |-> cacheTime,
                           cacheRoot |-> cacheRoot,
                           now |-> now, analyzer |-> "ok",
                           gitDiff |-> [ok |-> TRUE, files |-> <<>>]])} :
            /\ mode' = "cli"
            /\ options' = out.options
            /\ config' = out.config
            /\ patterns' = out.patterns
            /\ results' = out.results
            /\ exitCode' = out.exitCode
            /\ observed' = [content |-> cacheFile, time |-> cacheTime, at |-> now]
            /\ cacheFile' = out.cacheFile
            /\ cacheTime' = out.cacheTime
            /\ cacheRoot' = out.cacheRoot
    /\ UNCHANGED <<disk, configFile, report, session, now, tree, collected, writer>>
    /\ UNCHANGED sourceVars

NextCache == Tick \/ Analyze \/ Validate

SpecCache == InitCache /\ [][NextCache]_vars

----------------------------------------------------------------------------
(* Saving the cache while another process loads it.  fs.writeFileSync(path,
   data) opens the file for writing, which empties it, then writes the data
   in one or more write calls and closes it; a reader in another process may
   run between any two of these steps, and the writer may be killed there. *)

MaxChunks == 2

InitAtomic ==
    /\ disk = CacheDisk
    /\ configFile \in AnalyzerConfigFiles
    /\ cacheFile \in {"absent", "partial", "profile"}
    /\ cacheTime \in IF HasDate(cacheFile) THEN CacheTimes ELSE {0}
    /\ now = 0
    /\ mode = "none"
    /\ config = EmptyConfig
    /\ patterns = "unset"
    /\ options = parseArgs(HelpArgv)
    /\ results = NoResults
    /\ report = NoReport
    /\ exitCode = NoExit
    /\ session = NoSession
    /\ tree = NoTree
    /\ collected = <<>>
    /\ writer = NoWriter
    /\ observed = NoRead
    /\ cacheRoot = Cwd
    /\ SourceIdle

\* analyzeCodebase rebuilds the profile and reaches fs.writeFileSync, which
\* opens the cache file: the file exists and is empty
BeginSave ==
    /\ writer.pc = "idle"
    /\ \E refresh \in BOOLEAN, category \in {"all", "naming"} :
         LET opts == [refresh |-> refresh, category |-> category, writable |-> TRUE]
             out == analyzeCodebase(Cwd, cacheFile, cacheTime, cacheRoot, now,
                                    configFile, opts)
         IN /\ out.saved
            /\ options' = opts
            /\ writer' = [pc |-> "writing", written |-> 0, data |-> out.cacheFile,
                          time |-> out.cacheTime,
                          previous |-> [content |-> cacheFile, time |-> cacheTime]]
            /\ cacheFile' = "truncated"
            /\ cacheTime' = 0
    /\ UNCHANGED <<disk, configFile, mode, config, patterns, results, report, exitCode,
                   session, now, tree, collected, observed, cacheRoot>>
    /\ UNCHANGED sourceVars

\* one write call of fs.writeFileSync; the last one completes the file
WriteChunk ==
    /\ writer.pc = "writing"
    /\ LET done == writer.written + 1 = MaxChunks
       IN /\ writer' = [writer EXCEPT !.written = @ + 1,
                                       !.pc = IF done THEN "saved" ELSE "writing"]
          /\ cacheFile' = IF done THEN writer.data ELSE "torn"
          /\ cacheTime' = IF done THEN writer.time ELSE 0
    /\ UNCHANGED <<disk, configFile, mode, config, patterns, options, results, report,
                   exitCode, session, now, tree, collected, observed, cacheRoot>>
    /\ UNCHANGED sourceVars

\* the writing process is killed inside fs.writeFileSync
Crash ==
    /\ writer.pc = "writing"
    /\ writer' = [writer EXCEPT !.pc = "crashed"]
    /\ UNCHANGED <<disk, configFile, cacheFile, mode, config, patterns, options, results,
                   report, exitCode, session, now, cacheTime, tree, collected, observed,
                   cacheRoot>>
    /\ UNCHANGED sourceVars

\* another process loads the cache: loadPatterns(patternsPath)
ReadCache ==
    /\ observed = NoRead
    /\ mode' = "cli"
    /\ observed' = [content |-> cacheFile, time |-> cacheTime, at |-> now]
    /\ patterns' = loadPatterns(cacheFile).patterns
    /\ UNCHANGED <<disk, configFile, cacheFile, config, options, results, report, exitCode,
                   session, now, cacheTime, tree, collected, writer, cacheRoot>>
    /\ UNCHANGED sourceVars

NextAtomic == BeginSave \/ WriteChunk \/ Crash \/ ReadCache

SpecAtomic == InitAtomic /\ [][NextAtomic]_vars

----------------------------------------------------------------------------
(* Collecting files: collectFiles over small trees, among them a chain of
   directories as deep as the depth limit and one level deeper *)

MaxTreeFiles == 3

\* k directories named d, one inside the other
Chain(k) == [i \in 1..k |-> "d"]

\* the files a tree is made of
CandidateFiles ==
    {<<"a.js">>, <<"lib", "b.js">>, <<"lib", "b.min.js">>, <<".git", "h.js">>,
     <<"node_modules", "m.js">>, <<"lib", ".cache", "k.js">>,
     Append(Chain(MaxWalkDepth), "x.js"), Append(Chain(MaxWalkDepth + 1), "y.js")}

\* directories whose listing may fail
FailingDirs == {{}, {<<>>}, {<<"lib">>}, {Chain(1)}}

Trees ==
    {[files |-> fs, unreadable |-> u] :
        fs \in {x \in SUBSET CandidateFiles : Cardinality(x) <= MaxTreeFiles},
        u \in FailingDirs}

\* configurations of the collector
DetectionConfigs ==
    {DefaultDetection, NoDetection}
    \cup [skipDirs : {{}, {"node_modules"}}, skipFiles : {{}, {"*.min.js"}},
          maxFiles : {Undefined, JsInt(0), JsInt(1), JsInt(2)}]

InitCollect ==
    /\ tree \in Trees
    /\ config \in DetectionConfigs
    /\ collected = <<>>
    /\ mode = "none"
    /\ disk = CacheDisk
    /\ configFile = "absent"
    /\ cacheFile = "absent"
    /\ cacheTime = 0
    /\ now = 0
    /\ patterns = "unset"
    /\ options = parseArgs(HelpArgv)
    /\ results = NoResults
    /\ report = NoReport
    /\ exitCode = NoExit
    /\ session = NoSession
    /\ writer = NoWriter
    /\ observed = NoRead
    /\ cacheRoot = Cwd
    /\ SourceIdle

\* a call of collectFiles(projectRoot)
Collect ==
    /\ mode = "none"
    /\ mode' = "collector"
    /\ collected' = collectFiles(tree, config)
    /\ UNCHANGED <<disk, configFile, cacheFile, config, patterns, options, results, report,
                   exitCode, session, now, cacheTime, tree, writer, observed, cacheRoot>>
    /\ UNCHANGED sourceVars

NextCollect == Collect

SpecCollect == InitCollect /\ [][NextCollect]_vars

----------------------------------------------------------------------------
(* The order of the reports: validateFiles over lists of up to MaxListLen
   paths that may name a file more than once *)

MaxListLen == 3

AnyLists == UNION {[1..n -> Paths] : n \in 0..MaxListLen}

InitOrder ==
    /\ disk \in [Paths -> SecondFiles]
    /\ config \in {EmptyConfig, getDefaultConfig}
    /\ patterns = "unset"
    /\ mode = "lib"
    /\ configFile = "absent"
    /\ cacheFile = "absent"
    /\ options = parseArgs(HelpArgv)
    /\ results = NoResults
    /\ report = NoReport
    /\ exitCode = NoExit
    /\ session = NoSession
    /\ AnalyzerIdle

\* a call validateFiles(files, projectRoot, {})
ValidateList ==
    /\ ~results.present
    /\ \E files \in AnyLists :
         LET opts == [threshold |-> Undefined, iteration |-> Undefined,
                      maxIterations |-> Undefined, autoAnalyze |-> FALSE, files |-> files]
         IN /\ options' = opts
            /\ results' = validateFiles(files, disk, config, patterns, opts)
    /\ UNCHANGED <<disk, configFile, cacheFile, mode, config, patterns, report, exitCode,
                   session>>
    /\ UNCHANGED analyzerVars

NextOrder == ValidateList

SpecOrder == InitOrder /\ [][NextOrder]_vars

----------------------------------------------------------------------------
(* Repeated calls in one process: validateFiles and validateFile called
   through the module export, the files edited in between.  The caller keeps
   in session the module state it started with and, for each validateFiles
   call, the inputs and the summary returned. *)

MaxCalls == 3

CallFiles == {<<"a.js">>, <<"b.js", "a.js">>}

CallOptions ==
    [threshold : {Undefined}, iteration : {Undefined, JsInt(2)},
     maxIterations : {Undefined}, autoAnalyze : {FALSE}, files : {<<>>}]

\* what the caller edits a.js into
EditedFiles == {File("ok", Clean), File("ok", SecretsAndCatches)}

\* the module state the calls run in: untouched by require, or loaded
ModuleStates ==
    {[config |-> EmptyConfig, patterns |-> "unset"],
     [config |-> getDefaultConfig, patterns |-> "profile"]}

InitCalls ==
    /\ disk \in {[p \in Paths |-> IF p = "a.js" THEN f ELSE File("ok", OffProfile)] :
                    f \in EditedFiles}
    /\ \E m \in ModuleStates :
         /\ config = m.config
         /\ patterns = m.patterns
         /\ session = [status |-> "CALLS", count |-> 0, calls |-> {}, loaded |-> m]
    /\ mode = "lib"
    /\ configFile = "absent"
    /\ cacheFile = "absent"
    /\ options = parseArgs(HelpArgv)
    /\ results = NoResults
    /\ report = NoReport
    /\ exitCode = NoExit
    /\ AnalyzerIdle

\* faulty variant: the module counts its calls and uses the count as the
\* iteration when the caller supplies none
CallAgainTracking ==
    /\ session.count < MaxCalls
    /\ \E files \in CallFiles, opts \in CallOptions :
         LET tracked == [opts EXCEPT !.iteration =
                            IF opts.iteration = Undefined
                            THEN JsInt(session.count + 1) ELSE opts.iteration]
             out == validateFiles(files, disk, config, patterns, tracked)
         IN /\ options' = [opts EXCEPT !.files = files]
            /\ results' = out
            /\ session' = [session EXCEPT
                              !.count = @ + 1,
                              !.calls = @ \cup {[files |-> files, options |-> opts,
                                                 disk |-> disk, summary |-> out.summary]}]
    /\ UNCHANGED <<disk, configFile, cacheFile, mode, config, patterns, report, exitCode>>
    /\ UNCHANGED analyzerVars

\* a call of the exported validateFiles
CallAgain ==
    /\ session.count < MaxCalls
    /\ \E files \in CallFiles, opts \in CallOptions :
         LET out == validateFiles(files, disk, config, patterns, opts)
         IN /\ options' = [opts EXCEPT !.files = files]
            /\ results' = out
            /\ session' = [session EXCEPT
                              !.count = @ + 1,
                              !.calls = @ \cup {[files |-> files, options |-> opts,
                                                 disk |-> disk, summary |-> out.summary]}]
    /\ UNCHANGED <<disk, configFile, cacheFile, mode, config, patterns, report, exitCode>>
    /\ UNCHANGED analyzerVars

\* a call of the exported validateFile, between two validateFiles calls
CallFileBetween ==
    /\ session.count < MaxCalls
    /\ \E p \in Paths, opts \in CallOptions :
         report' = [present |-> TRUE,
                    file |-> validateFile(p, disk[p], config, patterns, opts)]
    /\ UNCHANGED <<disk, configFile, cacheFile, mode, config, patterns, options, results,
                   exitCode, session>>
    /\ UNCHANGED analyzerVars

\* the caller edits a.js between two calls
EditBetween ==
    /\ session.count < MaxCalls
    /\ \E f \in EditedFiles : f # disk["a.js"] /\ disk' = [disk EXCEPT !["a.js"] = f]
    /\ UNCHANGED <<configFile, cacheFile, mode, config, patterns, options, results, report,
                   exitCode, session>>
    /\ UNCHANGED analyzerVars

NextCalls == CallAgain \/ CallFileBetween \/ EditBetween

SpecCalls == InitCalls /\ [][NextCalls]_vars

----------------------------------------------------------------------------
(* Scoring one file: validateFile over contents with up to MaxFindings
   security matches and one other finding *)

SecurityContents ==
    {[Clean EXCEPT !.critical = a, !.high = b, !.medium = c] :
        a \in 0..MaxFindings, b \in 0..MaxFindings, c \in 0..MaxFindings}

CountedChecks ==
    {"nameFile", "nameFuncs", "misplaced", "relOverAlias", "ungrouped",
     "underDocumented", "consoleCalls", "emptyCatch", "asyncNoCatch", "longLines"}

ScoreContents ==
    {c \in SecurityContents : c.critical + c.high + c.medium <= MaxFindings}
    \cup {[c EXCEPT ![k] = n] :
            c \in {x \in SecurityContents : x.critical + x.high + x.medium <= 1},
            k \in CountedChecks, n \in {1, MaxFindings + 2, 4 * MaxFindings}}
    \cup {[Clean EXCEPT !.lineCount = l, !.maxNesting = n] :
            l \in {300, 301, 500, 501}, n \in {0, 4, 5, 6}}

InitScore ==
    /\ disk \in {[p \in Paths |-> File("ok", c)] : c \in ScoreContents}
    /\ configFile = "absent"
    /\ cacheFile = "absent"
    /\ mode = "lib"
    /\ config \in {EmptyConfig, getDefaultConfig, CustomConfig}
    /\ patterns \in {"unset", "profile"}
    /\ options = parseArgs(HelpArgv)
    /\ results = NoResults
    /\ report = NoReport
    /\ exitCode = NoExit
    /\ session = NoSession
    /\ AnalyzerIdle

ScoreFile ==
    /\ ~report.present
    /\ report' = [present |-> TRUE,
                  file |-> validateFile("a.js", disk["a.js"], config, patterns, options)]
    /\ UNCHANGED <<disk, configFile, cacheFile, mode, config, patterns, options,
                   results, exitCode, session>>
    /\ UNCHANGED analyzerVars

NextScore == ScoreFile

SpecScore == InitScore /\ [][NextScore]_vars

----------------------------------------------------------------------------
(* Identifiers.  A string is the sequence of its characters; the alphabet has
   one lower-case letter, one upper-case letter, one digit, the two word
   separators and a character no detector accepts. *)

MaxNameLen == 3

Alphabet == {"a", "A", "0", "_", "-", "."}

\* the characters of [a-z], [A-Z] and [0-9] in the alphabet
Lower == {"a"}
Upper == {"A"}
Digit == {"0"}

toLowerCase(s) == [i \in 1..Len(s) |-> IF s[i] \in Upper THEN "a" ELSE s[i]]
toUpperCase(s) == [i \in 1..Len(s) |-> IF s[i] \in Lower THEN "A" ELSE s[i]]

\* name.includes(ch)
Includes(s, ch) == \E i \in 1..Len(s) : s[i] = ch

\* /^[first][rest]*$/.test(name)
Matches(s, first, rest) ==
    /\ Len(s) >= 1
    /\ s[1] \in first
    /\ \A i \in 2..Len(s) : s[i] \in rest

\* the regular expressions of caseDetectors
CaseRule(caseName, s) ==
    CASE caseName = "camelCase" -> Matches(s, Lower, Lower \cup Upper \cup Digit)
      [] caseName = "PascalCase" -> Matches(s, Upper, Lower \cup Upper \cup Digit)
      [] caseName = "snake_case" -> Matches(s, Lower, Lower \cup Digit \cup {"_"})
      [] caseName = "kebab-case" -> Matches(s, Lower, Lower \cup Digit \cup {"-"})
      [] caseName = "UPPER_CASE" -> Matches(s, Upper, Upper \cup Digit \cup {"_"})
      [] OTHER -> FALSE

\* Object.entries(caseDetectors): the detectors in the order they are tried
caseDetectors == <<"camelCase", "PascalCase", "snake_case", "kebab-case", "UPPER_CASE">>

\* detectCase(name): the first detector that accepts the name, else 'other'
detectCase(name) ==
    IF \E k \in 1..Len(caseDetectors) : CaseRule(caseDetectors[k], name)
    THEN caseDetectors[CHOOSE k \in 1..Len(caseDetectors) :
                          /\ CaseRule(caseDetectors[k], name)
                          /\ \A j \in 1..(k - 1) : ~CaseRule(caseDetectors[j], name)]
    ELSE "other"

\* s.split(sep) for a one-character separator
RECURSIVE SplitOn(_, _)
SplitOn(s, sep) ==
    IF ~Includes(s, sep) THEN <<s>>
    ELSE LET k == CHOOSE i \in 1..Len(s) : s[i] = sep /\ \A j \in 1..(i - 1) : s[j] # sep
         IN <<SubSeq(s, 1, k - 1)>> \o SplitOn(SubSeq(s, k + 1, Len(s)), sep)

\* s.split(/(?=[A-Z])/): a cut before every upper-case letter but the first character
RECURSIVE SplitBeforeUpper(_)
SplitBeforeUpper(s) ==
    IF \E i \in 2..Len(s) : s[i] \in Upper
    THEN LET k == CHOOSE i \in 2..Len(s) :
                     s[i] \in Upper /\ \A j \in 2..(i - 1) : s[j] \notin Upper
         IN <<SubSeq(s, 1, k - 1)>> \o SplitBeforeUpper(SubSeq(s, k, Len(s)))
    ELSE IF s = <<>> THEN <<>> ELSE <<s>>

RECURSIVE Join(_, _)
Join(words, sep) ==
    IF words = <<>> THEN <<>>
    ELSE IF Len(words) = 1 THEN words[1]
    ELSE words[1] \o sep \o Join(Tail(words), sep)

\* w[0].toUpperCase() + w.slice(1)
Capitalize(w) == toUpperCase(SubSeq(w, 1, 1)) \o SubSeq(w, 2, Len(w))

\* what string concatenation makes of words[0] when words is empty
UndefinedText == <<"undefined">>

\* convertCase(name, targetCase)
convertCase(name, targetCase) ==
    LET split == IF Includes(name, "_") THEN SplitOn(toLowerCase(name), "_")
                 ELSE IF Includes(name, "-") THEN SplitOn(toLowerCase(name), "-")
                 ELSE [i \in 1..Len(SplitBeforeUpper(name)) |->
                          toLowerCase(SplitBeforeUpper(name)[i])]
        words == SelectSeq(split, LAMBDA w : Len(w) > 0)
        capitalized == [i \in 1..Len(words) |-> Capitalize(words[i])]
    IN  CASE targetCase = "camelCase" ->
               IF words = <<>> THEN UndefinedText
               ELSE words[1] \o Join(Tail(capitalized), <<>>)
          [] targetCase = "PascalCase" -> Join(capitalized, <<>>)
          [] targetCase = "snake_case" -> Join(words, <<"_">>)
          [] targetCase = "kebab-case" -> Join(words, <<"-">>)
          [] targetCase = "UPPER_CASE" -> toUpperCase(Join(words, <<"_">>))
          [] OTHER -> name

----------------------------------------------------------------------------
(* Pattern analyzer: naming patterns.  A count table is the sequence of its
   [key, count] entries in the order of Object.entries, the order in which
   the keys were created.  A file is [base, ext, status, functions, classes,
   constants, lines]: its name is base followed by ext, and functions,
   classes and constants are the names the declaration patterns capture in
   its content, in the order the loops meet them. *)

NamingSampleLimit == 100

CodeExtensions == {".js", ".jsx", ".ts", ".tsx", ".py", ".php", ".rb", ".go", ".rs"}

NamingCategories == <<"files", "functions", "variables", "classes", "constants">>

\* the count tables analyzeNamingPatterns starts from
EmptyCounts(category) ==
    LET keys == CASE category = "files" ->
                       <<"camelCase", "PascalCase", "snake_case", "kebab-case", "other">>
                  [] category = "functions" ->
                       <<"camelCase", "PascalCase", "snake_case", "other">>
                  [] category = "variables" ->
                       <<"camelCase", "PascalCase", "snake_case", "UPPER_CASE", "other">>
                  [] category = "classes" -> <<"PascalCase", "other">>
                  [] category = "constants" -> <<"UPPER_CASE", "other">>
    IN [i \in 1..Len(keys) |-> [key |-> keys[i], count |-> 0]]

\* counts[key] = (counts[key] || 0) + 1: a key the table lacks is created last
Incr(table, key) ==
    IF \E i \in 1..Len(table) : table[i].key = key
    THEN [i \in 1..Len(table) |->
             IF table[i].key = key THEN [table[i] EXCEPT !.count = @ + 1] ELSE table[i]]
    ELSE Append(table, [key |-> key, count |-> 1])

RECURSIVE CountAll(_, _)
CountAll(table, keys) ==
    IF keys = <<>> THEN table ELSE CountAll(Incr(table, Head(keys)), Tail(keys))

\* Object.values(counts).reduce((a, b) => a + b, 0)
Total(table) == SumSeq([i \in 1..Len(table) |-> table[i].count])

\* Math.max(...Object.values(counts))
MaxCount(table) ==
    CHOOSE m \in {table[i].count : i \in 1..Len(table)} :
        \A i \in 1..Len(table) : table[i].count <= m

\* faulty variant: the entries of equal count come out in reverse order
RECURSIVE SortByCountUnstable(_)
SortByCountUnstable(table) ==
    IF table = <<>> THEN <<>>
    ELSE LET k == CHOOSE i \in 1..Len(table) :
                     /\ table[i].count = MaxCount(table)
                     /\ \A j \in (i + 1)..Len(table) : table[j].count # MaxCount(table)
         IN <<table[k]>> \o SortByCountUnstable(SubSeq(table, 1, k - 1)
                                                \o SubSeq(table, k + 1, Len(table)))

\* Object.entries(counts).sort((a, b) => b[1] - a[1]): Array.prototype.sort is
\* stable, entries of equal count keep their order
RECURSIVE SortByCount(_)
SortByCount(table) ==
    IF table = <<>> THEN <<>>
    ELSE LET k == CHOOSE i \in 1..Len(table) :
                     /\ table[i].count = MaxCount(table)
                     /\ \A j \in 1..(i - 1) : table[j].count # MaxCount(table)
         IN <<table[k]>> \o SortByCount(SubSeq(table, 1, k - 1) \o SubSeq(table, k + 1, Len(table)))

RECURSIVE Flatten(_)
Flatten(seqs) == IF seqs = <<>> THEN <<>> ELSE Head(seqs) \o Flatten(Tail(seqs))

\* codeFiles.slice(0, 100), those whose fs.readFileSync does not throw
NamingCodeFiles(files) ==
    LET codeFiles == SelectSeq(files, LAMBDA f : f.ext \in CodeExtensions)
        sliced == SubSeq(codeFiles, 1, Min(NamingSampleLimit, Len(codeFiles)))
    IN SelectSeq(sliced, LAMBDA f : f.status = "ok")

\* the keys counted in a category, in the order the loops count them
CountedKeys(files, category) ==
    LET code == NamingCodeFiles(files)
        perFile(f) ==
            CASE category = "functions" ->
                   LET kept == SelectSeq(f.functions,
                                         LAMBDA n : Len(n) > 1 /\ n[1] # "_")
                   IN [i \in 1..Len(kept) |-> detectCase(kept[i])]
              [] category = "classes" ->
                   [i \in 1..Len(f.classes) |->
                       IF detectCase(f.classes[i]) = "PascalCase" THEN "PascalCase"
                       ELSE "other"]
              [] category = "constants" ->
                   LET kept == SelectSeq(f.constants, LAMBDA n : Len(n) > 2)
                   IN [i \in 1..Len(kept) |->
                          IF detectCase(kept[i]) = "UPPER_CASE" THEN "UPPER_CASE"
                          ELSE "other"]
    IN  CASE category = "files" -> [i \in 1..Len(files) |-> detectCase(files[i].base)]
          [] category = "variables" -> <<>>
          [] OTHER -> Flatten([i \in 1..Len(code) |-> perFile(code[i])])

\* faulty variant: a category without samples is reported with confidence 0/0
analyzeNamingPatternsUnguarded(files) ==
    LET counts == [c \in {NamingCategories[i] : i \in 1..Len(NamingCategories)} |->
                      CountAll(EmptyCounts(c), CountedKeys(files, c))]
    IN [counts |-> counts,
        dominant |-> [c \in DOMAIN counts |->
                         [pattern |-> SortByCount(counts[c])[1].key,
                          confidence |-> [num |-> SortByCount(counts[c])[1].count,
                                          den |-> Total(counts[c])],
                          total_samples |-> Total(counts[c])]]]

\* analyzeNamingPatterns(files, projectRoot): the count tables and, for each
\* category that has samples, the dominant pattern; a confidence is the
\* quotient num / den
analyzeNamingPatterns(files) ==
    LET counts == [c \in {NamingCategories[i] : i \in 1..Len(NamingCategories)} |->
                      CountAll(EmptyCounts(c), CountedKeys(files, c))]
    IN [counts |-> counts,
        dominant |-> [c \in {x \in DOMAIN counts : Total(counts[x]) > 0} |->
                         [pattern |-> SortByCount(counts[c])[1].key,
                          confidence |-> [num |-> SortByCount(counts[c])[1].count,
                                          den |-> Total(counts[c])],
                          total_samples |-> Total(counts[c])]]]

----------------------------------------------------------------------------
(* Pattern analyzer: import patterns.  A line of a file is [path, stmt,
   blank]: path is the module path the import or require pattern captures in
   it (NoPath when neither matches), stmt is whether the line matches
   /^import\s+/ or /^const.*require/, blank whether line.trim() is empty.
   A module path is a sequence over the characters . / @ ~ x. *)

ImportSampleLimit == 50

ModuleExtensions == {".js", ".jsx", ".ts", ".tsx"}

NoPath == <<>>

\* s.startsWith(prefix)
StartsWith(s, prefix) == IsPrefix(prefix, s)

\* the style analyzeImportPatterns counts an import path under
ProfilerImportStyle(path) ==
    IF StartsWith(path, <<".", "/">>) \/ StartsWith(path, <<".", ".", "/">>) THEN "relative"
    ELSE IF \/ StartsWith(path, <<"@", "/">>)
            \/ StartsWith(path, <<"~", "/">>)
            \/ StartsWith(path, <<"@">>) THEN "alias"
    ELSE "absolute"

\* const style = { absolute: 0, relative: 0, alias: 0 }
EmptyStyle ==
    <<[key |-> "absolute", count |-> 0], [key |-> "relative", count |-> 0],
      [key |-> "alias", count |-> 0]>>

\* the lines of a file in which an import path was captured
ImportsOf(lines) == SelectSeq(lines, LAMBDA l : l.path # NoPath)

\* lines.indexOf(line), counted from 1
IndexOf(lines, line) ==
    CHOOSE i \in 1..Len(lines) : lines[i] = line /\ \A j \in 1..(i - 1) : lines[j] # line

\* the loop that looks for a blank line between two import statements: the
\* line after the blank one is looked up with lines.indexOf(line) + 1
HasBlankLineSeparation(lines) ==
    \E i \in 2..Len(lines) :
        /\ lines[i - 1].stmt
        /\ ~lines[i].stmt /\ lines[i].blank
        /\ IndexOf(lines, lines[i]) + 1 <= Len(lines)
        /\ lines[IndexOf(lines, lines[i]) + 1].stmt

NoDominant == [present |-> FALSE]

\* jsFiles.slice(0, 50), those whose fs.readFileSync does not throw
ImportSampleFiles(files) ==
    LET jsFiles == SelectSeq(files, LAMBDA f : f.ext \in ModuleExtensions)
        sliced == SubSeq(jsFiles, 1, Min(ImportSampleLimit, Len(jsFiles)))
    IN SelectSeq(sliced, LAMBDA f : f.status = "ok")

\* analyzeImportPatterns(files, projectRoot)
analyzeImportPatterns(files) ==
    LET sampled == ImportSampleFiles(files)
        paths == Flatten([i \in 1..Len(sampled) |->
                             [k \in 1..Len(ImportsOf(sampled[i].lines)) |->
                                 ImportsOf(sampled[i].lines)[k].path]])
        style == CountAll(EmptyStyle,
                          [k \in 1..Len(paths) |-> ProfilerImportStyle(paths[k])])
        detected == \E i \in 1..Len(sampled) :
                        /\ Len(ImportsOf(sampled[i].lines)) > 3
                        /\ HasBlankLineSeparation(sampled[i].lines)
    IN [style |-> style,
        grouping |-> [detected |-> detected],
        dominant_style |->
            IF Total(style) > 0
            THEN [present |-> TRUE,
                  style |-> SortByCount(style)[1].key,
                  confidence |-> [num |-> MaxCount(style), den |-> Total(style)]]
            ELSE NoDominant]

----------------------------------------------------------------------------
(* Profiling a project: the exported analyzeNamingPatterns and
   analyzeImportPatterns called on file lists of up to MaxProjectFiles files *)

MaxProjectFiles == 3

SourceFile(base, ext, status, functions, classes, constants, lines) ==
    [base |-> base, ext |-> ext, status |-> status, functions |-> functions,
     classes |-> classes, constants |-> constants, lines |-> lines]

\* import x from '<path>'
ImportLine(path) == [path |-> path, stmt |-> TRUE, blank |-> FALSE]
\* an indented call of require('<path>')
InnerRequire(path) == [path |-> path, stmt |-> FALSE, blank |-> FALSE]
BlankLine == [path |-> NoPath, stmt |-> FALSE, blank |-> TRUE]
CodeLine == [path |-> NoPath, stmt |-> FALSE, blank |-> FALSE]

\* four imports in two groups, two relative and two from packages
GroupedImports ==
    <<ImportLine(<<".", "/", "x">>), ImportLine(<<".", ".", "/">>), BlankLine,
      ImportLine(<<"x">>), ImportLine(<<"x", "/", "x">>), CodeLine>>

\* four alias imports in one block
UngroupedImports ==
    <<ImportLine(<<"@", "/", "x">>), ImportLine(<<"~", "/", "x">>),
      ImportLine(<<"@", "x">>), ImportLine(<<"@", "/", "x">>), CodeLine>>

\* the files a project is made of
ProjectFiles ==
    {SourceFile(<<"a">>, ".js", "ok", <<<<"a", "A">>, <<"a", "_", "a">>>>,
                <<<<"A", "a">>>>, <<<<"A", "A", "A">>>>, <<>>),
     SourceFile(<<"A">>, ".js", "ok", <<<<"A", "_", "A">>, <<"_", "a">>, <<"a">>>>,
                <<<<"a">>>>, <<<<"A", "A">>>>, GroupedImports),
     SourceFile(<<"a", "_", "a">>, ".py", "ok", <<<<"a", "_", "a">>>>, <<>>, <<>>,
                <<ImportLine(<<"x">>)>>),
     SourceFile(<<"a", "-", "a">>, ".md", "ok", <<<<"A", "a">>>>, <<>>, <<>>, <<>>),
     SourceFile(<<"A", "_", "A">>, ".js", "unreadable", <<<<"a", "A">>>>, <<>>, <<>>,
                UngroupedImports),
     SourceFile(<<"a", ".", "a">>, ".ts", "ok", <<<<"A", "a">>>>, <<>>, <<>>,
                UngroupedImports),
     SourceFile(<<"A", "_">>, "", "ok", <<>>, <<>>, <<>>, <<>>)}

Projects == UNION {[1..n -> ProjectFiles] : n \in 0..MaxProjectFiles}

InitProfile ==
    /\ sample \in {[present |-> TRUE, files |-> p] : p \in Projects}
    /\ profile = NoCall
    /\ outcome = NoCall
    /\ mode = "lib"
    /\ disk = CacheDisk
    /\ configFile = "absent"
    /\ cacheFile = "absent"
    /\ config = EmptyConfig
    /\ patterns = "unset"
    /\ options = parseArgs(HelpArgv)
    /\ results = NoResults
    /\ report = NoReport
    /\ exitCode = NoExit
    /\ session = NoSession
    /\ now = 0
    /\ cacheTime = 0
    /\ tree = NoTree
    /\ collected = <<>>
    /\ writer = NoWriter
    /\ observed = NoRead
    /\ cacheRoot = Cwd

\* a call of the exported analyzeNamingPatterns
CallAnalyzeNaming ==
    /\ outcome = NoCall
    /\ outcome' = [present |-> TRUE, category |-> "naming",
                   value |-> analyzeNamingPatterns(sample.files)]
    /\ UNCHANGED <<disk, configFile, cacheFile, mode, config, patterns, options, results,
                   report, exitCode, session, now, cacheTime, tree, collected, writer,
                   observed, cacheRoot, sample, profile>>

\* a call of the exported analyzeImportPatterns
CallAnalyzeImports ==
    /\ outcome = NoCall
    /\ outcome' = [present |-> TRUE, category |-> "imports",
                   value |-> analyzeImportPatterns(sample.files)]
    /\ UNCHANGED <<disk, configFile, cacheFile, mode, config, patterns, options, results,
                   report, exitCode, session, now, cacheTime, tree, collected, writer,
                   observed, cacheRoot, sample, profile>>

NextProfile == CallAnalyzeNaming \/ CallAnalyzeImports

SpecProfile == InitProfile /\ [][NextProfile]_vars

----------------------------------------------------------------------------
(* Validator: naming conformance.  The file validated is [base, ext,
   functions, lines]: functions are the names the function patterns of
   validateNaming capture in its content, in the order of the scan. *)

\* dominant[category]?.pattern && dominant[category].confidence >= 0.7
Confident(dominant, category) ==
    /\ category \in DOMAIN dominant
    /\ 10 * dominant[category].confidence.num >= 7 * dominant[category].confidence.den

\* the extension as it is appended to a name
ExtText(ext) == IF ext = "" THEN <<>> ELSE <<ext>>

\* filePatterns.naming?.dominant || {}
DominantOf(filePatterns) ==
    IF "naming" \in DOMAIN filePatterns THEN filePatterns.naming.dominant ELSE <<>>

\* faulty variant: the case of the whole file name, extension included, is detected
FileNameIssuesOfFullName(base, ext, dominant) ==
    IF /\ Confident(dominant, "files")
       /\ detectCase(base \o ExtText(ext)) # dominant["files"].pattern
       /\ detectCase(base \o ExtText(ext)) # "other"
    THEN <<[type |-> "naming", severity |-> "medium", of |-> "file",
            actual |-> detectCase(base \o ExtText(ext)),
            expected |-> dominant["files"].pattern,
            current |-> base,
            suggested |-> convertCase(base, dominant["files"].pattern) \o ExtText(ext)]>>
    ELSE <<>>

\* the check of the file name (174-192): the issues it pushes
FileNameIssues(base, ext, dominant) ==
    IF /\ Confident(dominant, "files")
       /\ detectCase(base) # dominant["files"].pattern
       /\ detectCase(base) # "other"
    THEN <<[type |-> "naming", severity |-> "medium", of |-> "file",
            actual |-> detectCase(base), expected |-> dominant["files"].pattern,
            current |-> base,
            suggested |-> convertCase(base, dominant["files"].pattern) \o ExtText(ext)]>>
    ELSE <<>>

\* the check of the function names (194-232): the issues it pushes
FunctionNameIssues(functions, dominant) ==
    IF Confident(dominant, "functions")
    THEN LET checked == SelectSeq(functions, LAMBDA n : ~(n[1] = "_" \/ Len(n) <= 2))
             off == SelectSeq(checked,
                              LAMBDA n : /\ detectCase(n) # dominant["functions"].pattern
                                         /\ detectCase(n) # "other")
         IN [i \in 1..Len(off) |->
                [type |-> "naming", severity |-> "low", of |-> "function",
                 actual |-> detectCase(off[i]),
                 expected |-> dominant["functions"].pattern,
                 current |-> off[i],
                 suggested |-> convertCase(off[i], dominant["functions"].pattern)]]
    ELSE <<>>

\* validateNaming(fileContent, filePath, filePatterns): the score and the issues
NamingReport(file, filePatterns) ==
    LET dominant == DominantOf(filePatterns)
        fileIssues == FileNameIssues(file.base, file.ext, dominant)
        functionIssues == FunctionNameIssues(file.functions, dominant)
    IN [score |-> validateNaming([nameFile |-> Len(fileIssues),
                                  nameFuncs |-> Len(functionIssues)], "profile"),
        issues |-> fileIssues \o functionIssues]

----------------------------------------------------------------------------
(* Validating names: the exported validateNaming called on files whose base
   name is any string of up to MaxNameLen characters, against the profiles
   the analyzer builds from projects of at most two files *)

Names == UNION {[1..n -> Alphabet] : n \in 1..MaxNameLen}

\* many functions to rename
MaxRenames == 20

FunctionLists ==
    {<<>>,
     <<<<"a", "A", "a">>, <<"a", "_", "a">>>>,
     <<<<"a", "a", "a">>, <<"A", "a", "a">>, <<"_", "a", "a">>, <<"a", "a">>,
       <<"A", "_", "A">>>>,
     [i \in 1..MaxRenames |-> <<"A", "a", "a">>]}

ValidatedFile(base, ext, functions, lines) ==
    [present |-> TRUE, base |-> base, ext |-> ext, functions |-> functions, lines |-> lines]

NamedFiles ==
    {ValidatedFile(b, ".js", <<>>, <<>>) : b \in Names}
    \cup {ValidatedFile(b, e, f, <<>>) :
             b \in {<<"a">>, <<"A", "a">>, <<"a", "_", "a">>}, e \in {"", ".js"},
             f \in FunctionLists}

\* patterns.patterns of a cache: without the naming category, or with the
\* naming patterns of a project
NamingProfiles ==
    {[present |-> TRUE]}
    \cup {[present |-> TRUE, naming |-> analyzeNamingPatterns(p)] :
             p \in {q \in Projects : Len(q) <= 2}}

InitNaming ==
    /\ sample \in NamedFiles
    /\ profile \in NamingProfiles
    /\ outcome = NoCall
    /\ mode = "lib"
    /\ disk = CacheDisk
    /\ configFile = "absent"
    /\ cacheFile = "absent"
    /\ config = EmptyConfig
    /\ patterns = "unset"
    /\ options = parseArgs(HelpArgv)
    /\ results = NoResults
    /\ report = NoReport
    /\ exitCode = NoExit
    /\ session = NoSession
    /\ now = 0
    /\ cacheTime = 0
    /\ tree = NoTree
    /\ collected = <<>>
    /\ writer = NoWriter
    /\ observed = NoRead
    /\ cacheRoot = Cwd

\* a call of the exported validateNaming
CallValidateNaming ==
    /\ outcome = NoCall
    /\ outcome' = [present |-> TRUE, value |-> NamingReport(sample, profile)]
    /\ UNCHANGED <<disk, configFile, cacheFile, mode, config, patterns, options, results,
                   report, exitCode, session, now, cacheTime, tree, collected, writer,
                   observed, cacheRoot, sample, profile>>

NextNaming == CallValidateNaming

SpecNaming == InitNaming /\ [][NextNaming]_vars

----------------------------------------------------------------------------
(* Validator: import conformance *)

\* the style validateImports counts an import path under, "none" when it
\* counts it under no style
ValidatorImportStyle(path) ==
    IF StartsWith(path, <<".", "/">>) \/ StartsWith(path, <<".", ".", "/">>) THEN "relative"
    ELSE IF StartsWith(path, <<"@", "/">>) \/ StartsWith(path, <<"~", "/">>) THEN "alias"
    ELSE IF ~StartsWith(path, <<".">>) THEN "absolute"
    ELSE "none"

\* table[key]
CountOf(table, key) == table[CHOOSE i \in 1..Len(table) : table[i].key = key].count

\* the positions of the lines matching /^import\s+/ or /^const.*require/
ImportLinesOf(lines) ==
    LET RECURSIVE from(_)
        from(i) == IF i > Len(lines) THEN <<>>
                   ELSE (IF lines[i].stmt THEN <<i>> ELSE <<>>) \o from(i + 1)
    IN from(1)

\* the loop that looks for a gap between two consecutive import lines
HasGrouping(importLines) ==
    \E i \in 2..Len(importLines) : importLines[i] - importLines[i - 1] > 1

\* filePatterns.imports || {} and its dominant_style
ImportPatternsOf(filePatterns) ==
    IF "imports" \in DOMAIN filePatterns THEN filePatterns.imports
    ELSE [grouping |-> [detected |-> FALSE], dominant_style |-> NoDominant]

\* !dominantStyle || dominantStyle.confidence < 0.6
Unconvincing(dominantStyle) ==
    \/ ~dominantStyle.present
    \/ 10 * dominantStyle.confidence.num < 6 * dominantStyle.confidence.den

\* validateImports(fileContent, filePath, filePatterns): the score, the issues
\* and the local currentFileStyle; scanned is whether the lines were looked at
ImportsReport(file, filePatterns) ==
    LET importPatterns == ImportPatternsOf(filePatterns)
        dominantStyle == importPatterns.dominant_style
        paths == ImportsOf(file.lines)
        styles == SelectSeq([k \in 1..Len(paths) |-> ValidatorImportStyle(paths[k].path)],
                            LAMBDA st : st # "none")
        currentFileStyle == CountAll(EmptyStyle, styles)
        styleIssues ==
            IF /\ Total(currentFileStyle) > 2
               /\ dominantStyle.style = "alias"
               /\ CountOf(currentFileStyle, "relative") > CountOf(currentFileStyle, "alias")
            THEN <<[type |-> "imports", severity |-> "low",
                    current |-> "relative", suggested |-> "alias"]>>
            ELSE <<>>
        importLines == ImportLinesOf(file.lines)
        groupingIssues ==
            IF /\ importPatterns.grouping.detected
               /\ Len(importLines) > 3
               /\ ~HasGrouping(importLines)
            THEN <<[type |-> "imports", severity |-> "low",
                    current |-> "ungrouped", suggested |-> "grouped"]>>
            ELSE <<>>
    IN  IF file.ext \notin ModuleExtensions \/ Unconvincing(dominantStyle)
        THEN [score |-> 100, issues |-> <<>>, scanned |-> FALSE,
              currentFileStyle |-> EmptyStyle]
        ELSE [score |-> validateImports([relOverAlias |-> Len(styleIssues),
                                         ungrouped |-> Len(groupingIssues)], "profile"),
              issues |-> styleIssues \o groupingIssues, scanned |-> TRUE,
              currentFileStyle |-> currentFileStyle]

----------------------------------------------------------------------------
(* Validating imports: the exported validateImports called on files of up to
   MaxImportLines lines, against the import patterns the analyzer builds from
   projects of at most three files *)

MaxImportLines == 5

LineKinds ==
    {ImportLine(<<".", "/", "x">>), ImportLine(<<"@", "/", "x">>), BlankLine, CodeLine}

ImportFiles ==
    {ValidatedFile(<<"a">>, ".js", <<>>, l) :
        l \in UNION {[1..n -> LineKinds] : n \in 0..MaxImportLines}}
    \cup {ValidatedFile(<<"a">>, ".py", <<>>, [i \in 1..4 |-> ImportLine(<<".", "/", "x">>)])}

ImportProfiles ==
    {[present |-> TRUE]}
    \cup {[present |-> TRUE, imports |-> analyzeImportPatterns(p)] :
             p \in {q \in Projects : Len(q) <= 3}}

InitImports ==
    /\ sample \in ImportFiles
    /\ profile \in ImportProfiles
    /\ outcome = NoCall
    /\ mode = "lib"
    /\ disk = CacheDisk
    /\ configFile = "absent"
    /\ cacheFile = "absent"
    /\ config = EmptyConfig
    /\ patterns = "unset"
    /\ options = parseArgs(HelpArgv)
    /\ results = NoResults
    /\ report = NoReport
    /\ exitCode = NoExit
    /\ session = NoSession
    /\ now = 0
    /\ cacheTime = 0
    /\ tree = NoTree
    /\ collected = <<>>
    /\ writer = NoWriter
    /\ observed = NoRead
    /\ cacheRoot = Cwd

\* a call of the exported validateImports
CallValidateImports ==
    /\ profile.present
    /\ outcome = NoCall
    /\ outcome' = [present |-> TRUE, value |-> ImportsReport(sample, profile)]
    /\ UNCHANGED <<disk, configFile, cacheFile, mode, config, patterns, options, results,
                   report, exitCode, session, now, cacheTime, tree, collected, writer,
                   observed, cacheRoot, sample, profile>>

NextImports == CallValidateImports

SpecImports == InitImports /\ [][NextImports]_vars

----------------------------------------------------------------------------
(* Validator: maintainability of a file content.  A content is the sequence
   fileContent.split('\n') yields, never empty; a line is its brace characters
   in order and its length *)

\* (line.match(/\{/g) || []).length, (line.match(/\}/g) || []).length
CountChar(line, ch) == Len(SelectSeq(line.braces, LAMBDA b : b = ch))

\* faulty variant: the running nesting is not let below 0
NestingStepClamped(lines, i, acc) ==
    LET currentNesting == Max(0, acc.currentNesting
                                 + CountChar(lines[i], "{") - CountChar(lines[i], "}"))
    IN IF currentNesting > acc.maxNesting
       THEN [currentNesting |-> currentNesting, maxNesting |-> currentNesting,
             maxNestingLine |-> i]
       ELSE [acc EXCEPT !.currentNesting = currentNesting]

\* one turn of the loop that tracks currentNesting and maxNesting
NestingStep(lines, i, acc) ==
    LET currentNesting == acc.currentNesting
                          + CountChar(lines[i], "{") - CountChar(lines[i], "}")
    IN IF currentNesting > acc.maxNesting
       THEN [currentNesting |-> currentNesting, maxNesting |-> currentNesting,
             maxNestingLine |-> i]
       ELSE [acc EXCEPT !.currentNesting = currentNesting]

\* the loop over lines lo..hi, in order, started with acc: the first half of
\* the range, then the second half from where the first ended
RECURSIVE NestingOver(_, _, _, _)
NestingOver(lines, lo, hi, acc) ==
    IF lo > hi THEN acc
    ELSE IF lo = hi THEN NestingStep(lines, lo, acc)
    ELSE LET firstHalf == {NestingOver(lines, lo, (lo + hi) \div 2, acc)}
         IN CHOOSE out \in {NestingOver(lines, (lo + hi) \div 2 + 1, hi, mid) :
                               mid \in firstHalf} : TRUE

\* the positions of the lines with lines[i].length > 120
LongLines(lines) ==
    SelectSeq([i \in 1..Len(lines) |-> i], LAMBDA i : lines[i].length > 120)

\* validateMaintainability(fileContent, filePath): the score and the issues
MaintainabilityReport(lines) ==
    LET nesting == NestingOver(lines, 1, Len(lines),
                       [currentNesting |-> 0, maxNesting |-> 0, maxNestingLine |-> 0])
        long == LongLines(lines)
        sizeIssues ==
            IF Len(lines) > 500 THEN <<[severity |-> "medium", line |-> 0]>>
            ELSE IF Len(lines) > 300 THEN <<[severity |-> "low", line |-> 0]>>
            ELSE <<>>
        nestingIssues ==
            IF nesting.maxNesting > 5
            THEN <<[severity |-> "high", line |-> nesting.maxNestingLine]>>
            ELSE IF nesting.maxNesting > 4
            THEN <<[severity |-> "medium", line |-> nesting.maxNestingLine]>>
            ELSE <<>>
        longIssues ==
            [k \in 1..Min(3, Len(long)) |-> [severity |-> "low", line |-> long[k]]]
    IN [score |-> validateMaintainability([lineCount |-> Len(lines),
                                           maxNesting |-> nesting.maxNesting,
                                           longLines |-> Len(long)]),
        issues |-> sizeIssues \o nestingIssues \o longIssues]

----------------------------------------------------------------------------
(* Validating maintainability: the exported validateMaintainability called on
   contents made of up to MaxHeadLines lines of any kind followed by a run of
   equal brace-free lines *)

MaxHeadLines == 3

Line(braces, length) == [braces |-> braces, length |-> length]

HeadLineKinds ==
    {Line(<<>>, 0), Line(<<"{", "{", "{">>, 3), Line(<<"{", "{", "}">>, 3),
     Line(<<"}">>, 1), Line(<<"{">>, 121)}

TailLineKinds == {Line(<<>>, 0), Line(<<>>, 120), Line(<<>>, 121)}

TailLengths == {0, 3, 298, 499}

Contents ==
    {c \in {head \o [i \in 1..n |-> tail] :
                head \in UNION {[1..h -> HeadLineKinds] : h \in 0..MaxHeadLines},
                n \in TailLengths, tail \in TailLineKinds} : Len(c) >= 1}

InitMaintainability ==
    /\ sample \in {[present |-> TRUE, lines |-> c] : c \in Contents}
    /\ profile = NoCall
    /\ outcome = NoCall
    /\ mode = "lib"
    /\ disk = CacheDisk
    /\ configFile = "absent"
    /\ cacheFile = "absent"
    /\ config = EmptyConfig
    /\ patterns = "unset"
    /\ options = parseArgs(HelpArgv)
    /\ results = NoResults
    /\ report = NoReport
    /\ exitCode = NoExit
    /\ session = NoSession
    /\ now = 0
    /\ cacheTime = 0
    /\ tree = NoTree
    /\ collected = <<>>
    /\ writer = NoWriter
    /\ observed = NoRead
    /\ cacheRoot = Cwd

\* a call of the exported validateMaintainability
CallValidateMaintainability ==
    /\ sample.present
    /\ ~profile.present
    /\ outcome = NoCall
    /\ outcome' = [present |-> TRUE, value |-> MaintainabilityReport(sample.lines)]
    /\ UNCHANGED <<disk, configFile, cacheFile, mode, config, patterns, options, results,
                   report, exitCode, session, now, cacheTime, tree, collected, writer,
                   observed, cacheRoot, sample, profile>>

NextMaintainability == CallValidateMaintainability

SpecMaintainability == InitMaintainability /\ [][NextMaintainability]_vars

----------------------------------------------------------------------------
(* Several projects, one cache: analyzeCodebase called on different project
   roots in processes that load the module from one installation, so that
   DEFAULT_CACHE_PATH names one file for all of them, while the clock
   advances *)

OtherRoot == "/q"

ProjectRoots == {Cwd, OtherRoot}

InitRoots ==
    /\ disk = CacheDisk
    /\ configFile \in AnalyzerConfigFiles
    /\ cacheFile = "absent"
    /\ cacheTime = 0
    /\ cacheRoot = NoRoot
    /\ now = 0
    /\ mode = "none"
    /\ config = EmptyConfig
    /\ patterns = "unset"
    /\ options = parseArgs(HelpArgv)
    /\ results = NoResults
    /\ report = NoReport
    /\ exitCode = NoExit
    /\ session = NoSession
    /\ tree = NoTree
    /\ collected = <<>>
    /\ writer = NoWriter
    /\ observed = NoRead
    /\ sample = NoCall
    /\ profile = NoCall
    /\ outcome = NoCall

\* an hour passes
TickRoots ==
    /\ now < MaxClock
    /\ now' = now + 1
    /\ UNCHANGED <<disk, configFile, cacheFile, mode, config, patterns, options, results,
                   report, exitCode, session, cacheTime, tree, collected, writer, observed,
                   cacheRoot, sample, profile, outcome>>

\* one call analyzeCodebase(projectRoot, options); outcome keeps the argument
\* and the profile returned
AnalyzeRoot ==
    /\ \E projectRoot \in ProjectRoots, opts \in AnalyzeOptions :
         \E out \in {analyzeCodebase(projectRoot, cacheFile, cacheTime, cacheRoot, now,
                                     configFile, opts)} :
            /\ mode' = "analyzer"
            /\ options' = opts
            /\ outcome' = [present |-> TRUE, projectRoot |-> projectRoot,
                           value |-> [profile |-> out.profile,
                                      analyzed_at |-> out.analyzed_at,
                                      project_root |-> out.project_root],
                           rebuilt |-> out.rebuilt]
            /\ cacheFile' = out.cacheFile
            /\ cacheTime' = out.cacheTime
            /\ cacheRoot' = out.cacheRoot
    /\ UNCHANGED <<disk, configFile, config, patterns, results, report, exitCode, session,
                   now, tree, collected, writer, observed, sample, profile>>

NextRoots == TickRoots \/ AnalyzeRoot

SpecRoots == InitRoots /\ [][NextRoots]_vars

----------------------------------------------------------------------------
(* Profiling and validating the same import: a project of one module file
   that holds one import of a path of up to MaxPathLen characters is profiled
   by analyzeImportPatterns, and the file is then scored by validateImports
   against that profile *)

MaxPathLen == 3

PathAlphabet == {".", "/", "@", "~", "x"}

ImportPaths == UNION {[1..n -> PathAlphabet] : n \in 1..MaxPathLen}

OneImportFiles ==
    {SourceFile(<<"a">>, ".js", "ok", <<>>, <<>>, <<>>, <<ImportLine(p)>>) :
        p \in ImportPaths}

InitStyles ==
    /\ sample \in OneImportFiles
    /\ profile = NoCall
    /\ outcome = NoCall
    /\ mode = "lib"
    /\ disk = CacheDisk
    /\ configFile = "absent"
    /\ cacheFile = "absent"
    /\ config = EmptyConfig
    /\ patterns = "unset"
    /\ options = parseArgs(HelpArgv)
    /\ results = NoResults
    /\ report = NoReport
    /\ exitCode = NoExit
    /\ session = NoSession
    /\ now = 0
    /\ cacheTime = 0
    /\ tree = NoTree
    /\ collected = <<>>
    /\ writer = NoWriter
    /\ observed = NoRead
    /\ cacheRoot = Cwd

\* analyzeImportPatterns on the project made of the file
ProfileOneFile ==
    /\ ~profile.present
    /\ profile' = [present |-> TRUE, imports |-> analyzeImportPatterns(<<sample>>)]
    /\ UNCHANGED <<disk, configFile, cacheFile, mode, config, patterns, options, results,
                   report, exitCode, session, now, cacheTime, tree, collected, writer,
                   observed, cacheRoot, sample, outcome>>

\* validateImports on the file, against the profile built from it
ValidateProfiledFile ==
    /\ profile.present
    /\ ~outcome.present
    /\ outcome' = [present |-> TRUE, value |-> ImportsReport(sample, profile)]
    /\ UNCHANGED <<disk, configFile, cacheFile, mode, config, patterns, options, results,
                   report, exitCode, session, now, cacheTime, tree, collected, writer,
                   observed, cacheRoot, sample, profile>>

NextStyles == ProfileOneFile \/ ValidateProfiledFile

SpecStyles == InitStyles /\ [][NextStyles]_vars

----------------------------------------------------------------------------
(* Properties of the orchestrator and the CLI *)

Reports == IF results.present THEN {results.files[i] : i \in 1..Len(results.files)} ELSE {}

IsInt(v) == v.tag = "int"

\* C1: for a validateFiles call with iteration i >= 1 and maxIterations m >= 1,
\* needs_refinement is true exactly when some file report has passed = false
\* and i < m.
C1_NeedsRefinementIff ==
    (/\ results.present
     /\ IsInt(options.iteration) /\ options.iteration.val >= 1
     /\ IsInt(options.maxIterations) /\ options.maxIterations.val >= 1)
    => (results.summary.needs_refinement
          <=> (/\ \E r \in Reports : ~r.passed
               /\ options.iteration.val < options.maxIterations.val))

\* a run at iteration 1 of 2 with one passing and one failing file asks for refinement
C1_Witness ==
    /\ results.present
    /\ options.iteration = JsInt(1) /\ options.maxIterations = JsInt(2)
    /\ results.summary.needs_refinement
    /\ \E r \in Reports : r.passed
    /\ \E r \in Reports : ~r.passed

Passes(summary) == summary.all_passed
Escalates(summary) == ~summary.all_passed /\ summary.iteration >= summary.max_iterations
Refines(summary) == summary.needs_refinement

\* C2: every summary shows exactly one of PASSED (all_passed), ESCALATED (not
\* all_passed and iteration >= max_iterations, which is all_passed = false and
\* needs_refinement = false) and NEEDS_REFINEMENT (needs_refinement);
\* all_passed and needs_refinement are never both true.
C2_ExactlyOneOutcome ==
    results.present =>
        LET s == results.summary
        IN /\ ~(s.all_passed /\ s.needs_refinement)
           /\ Escalates(s) <=> (~s.all_passed /\ ~s.needs_refinement)
           /\ \/ Passes(s) /\ ~Escalates(s) /\ ~Refines(s)
              \/ ~Passes(s) /\ Escalates(s) /\ ~Refines(s)
              \/ ~Passes(s) /\ ~Escalates(s) /\ Refines(s)

\* a run at its last iteration with a failing file is ESCALATED
C2_Witness ==
    /\ results.present
    /\ ~results.summary.all_passed
    /\ ~results.summary.needs_refinement
    /\ results.summary.iteration = results.summary.max_iterations
    /\ results.summary.iteration = MaxIterArg

\* C3: a session that starts at iteration 1 and runs again with iteration + 1
\* exactly when the summary has needs_refinement = true is PASSED or ESCALATED
\* after at most maxIterations runs: it never asks for a run beyond them.
C3_SessionBounded ==
    /\ session.invocations <= session.maxIterations
    /\ session.status = "NEEDS_REFINEMENT" => session.invocations < session.maxIterations
    /\ (session.status # "NONE" /\ session.invocations = session.maxIterations)
          => session.status \in {"PASSED", "ESCALATED"}
    /\ session.status \in {"PASSED", "ESCALATED", "NEEDS_REFINEMENT"}
          => session.invocations = session.iteration - (IF session.status = "NEEDS_REFINEMENT" THEN 1 ELSE 0)

\* a session that used all of its two or more iterations and is ESCALATED
C3_Witness ==
    /\ session.status = "ESCALATED"
    /\ session.maxIterations >= 2
    /\ session.invocations = session.maxIterations

ConfigLoaded == mode = "cli" /\ (patterns # "unset" \/ exitCode = 2)

\* a numeric option that is no integer of its range
InvalidThreshold == ~IsInt(options.threshold) \/ options.threshold.val \notin 0..100
InvalidIteration == ~IsInt(options.iteration) \/ options.iteration.val < 1
InvalidMaxIterations == ~IsInt(options.maxIterations) \/ options.maxIterations.val < 1

ConfigurationError ==
    configFile = "corrupt" \/ InvalidThreshold \/ InvalidIteration \/ InvalidMaxIterations

Validated ==
    IF mode = "lib" THEN options.files
    ELSE [i \in 1..Len(results.files) |-> results.files[i].file]

\* C6: a file validateFiles cannot read gets a report with overall_score 0,
\* passed = false and an error; every other file is still reported; the errored
\* file counts in failed and in total_files and adds 0 to average_score.
C6_UnreadableFileFails ==
    results.present =>
        LET n == Len(results.files)
            errored == {i \in 1..n : disk[results.files[i].file].status # "ok"}
            scored == (1..n) \ errored
            total == SumSeq([i \in 1..n |->
                               IF i \in errored THEN 0 ELSE results.files[i].overall_score])
        IN /\ \A i \in errored :
                 /\ results.files[i].error
                 /\ results.files[i].overall_score = 0
                 /\ ~results.files[i].passed
           /\ \A i \in scored : ~results.files[i].error
           /\ n = Len(Validated) /\ \A i \in 1..n : results.files[i].file = Validated[i]
           /\ results.summary.total_files = n
           /\ results.summary.failed >= Cardinality(errored)
           /\ results.summary.passed <= Cardinality(scored)
           /\ results.summary.passed + results.summary.failed = n
           /\ n > 0 => results.summary.average_score = Round(total, n)

\* a CLI run over an unreadable file followed by a clean one: one failed with
\* score 0, one passed with score 100, average 50
C6_Witness ==
    /\ results.present /\ Len(results.files) = 2
    /\ results.files[1].error /\ results.files[1].overall_score = 0
    /\ ~results.files[2].error /\ results.files[2].passed
    /\ results.summary.failed = 1 /\ results.summary.passed = 1
    /\ results.summary.average_score = 50

\* C7: every target file of a CLI run that cannot be read, a path that does not
\* exist or is no regular file included, has a failing report with score 0 in
\* the summary, and the run does not exit with 0.
C7_UnreadableTargetReported ==
    (ConfigLoaded /\ exitCode # 2) =>
        \A j \in 1..Len(options.files) :
            disk[options.files[j]].status # "ok" =>
                /\ exitCode # 0
                /\ results.present
                /\ \E r \in Reports :
                      r.file = options.files[j] /\ r.overall_score = 0 /\ ~r.passed

\* C8: for every threshold t in 0..100 and every readable file with overall
\* score s, passed = true exactly when s >= t.
C8_PassedIffAtLeastThreshold ==
    (results.present /\ IsInt(options.threshold) /\ options.threshold.val \in 0..100) =>
        \A r \in Reports : ~r.error => (r.passed <=> r.overall_score >= options.threshold.val)

\* the weights in force: the configured ones, the defaults when none was supplied
WeightsInForce == IF config = EmptyConfig THEN getDefaultConfig ELSE config

WeightOf(w, d) == IF d \in DOMAIN w THEN w[d] ELSE 0

\* round(sum of dimension score x weight / sum of weights) over the four dimensions
WeightedMean(scores, w) ==
    LET num == scores["consistency"] * WeightOf(w, "consistency")
               + scores["completeness"] * WeightOf(w, "completeness")
               + scores["security"] * WeightOf(w, "security")
               + scores["maintainability"] * WeightOf(w, "maintainability")
        den == WeightOf(w, "consistency") + WeightOf(w, "completeness")
               + WeightOf(w, "security") + WeightOf(w, "maintainability")
    IN (2 * num + den) \div (2 * den)

AllReports == Reports \cup (IF report.present THEN {report.file} ELSE {})

\* C9: every validateFile call on a readable file, a call through the module
\* export without a CLI run included, yields overall_score = the rounded
\* weighted mean of the four dimension scores under the configured weights,
\* which are 0.35 / 0.25 / 0.25 / 0.15 when no configuration was supplied.
C9_OverallIsWeightedMean ==
    \A r \in AllReports :
        ~r.error => r.overall_score = WeightedMean(r.scores, WeightsInForce)

InRange(x) == x \in 0..100

\* C10: in every file report each validator sub-score, each dimension score
\* and overall_score is an integer in 0..100, however many issues were found.
C10_ScoresInRange ==
    \A r \in AllReports :
        ~r.error =>
            /\ InRange(r.overall_score)
            /\ \A d \in Dimensions :
                  /\ InRange(r.scores[d])
                  /\ \A k \in 1..Len(r.subscores[d]) : InRange(r.subscores[d][k])

\* a scored file whose security deductions exceed 100: the sub-score is 0
C10_Witness ==
    /\ report.present /\ ~report.file.error
    /\ 25 * disk["a.js"].content.critical + 15 * disk["a.js"].content.high > 100
    /\ report.file.scores["security"] = 0
    /\ report.file.overall_score > 0

----------------------------------------------------------------------------
(* Properties of the persisted profile *)

\* the TTL the configuration asks for, in hours: 24 when it names none
ConfiguredTTL(cf) ==
    LET hours == loadAnalyzerConfig(cf).ttlHours
    IN IF IsInt(hours) THEN hours.val ELSE DefaultTTLHours

\* the cache read by the last run exists, parses, and is younger than the TTL
ReadFresh ==
    /\ Parses(observed.content)
    /\ HasDate(observed.content)
    /\ observed.at - observed.time < ConfiguredTTL(configFile)

\* C11: analyzeCodebase returns the persisted profile without rebuilding
\* exactly when no refresh is requested and the cache exists, parses and is
\* younger than the configured TTL (24 hours by default); otherwise it rebuilds
\* and the returned profile's analyzed_at is the time of the call.
C11_ReuseOnlyWhileFresh ==
    mode = "analyzer" =>
        /\ results.rebuilt <=> ~(~options.refresh /\ ReadFresh)
        /\ results.rebuilt => results.analyzed_at = observed.at
        /\ ~results.rebuilt => /\ results.profile = observed.content
                               /\ results.analyzed_at = observed.time

\* the cache read by the last run is a dated one whose age has reached the TTL
ReadStale ==
    /\ Parses(observed.content)
    /\ HasDate(observed.content)
    /\ observed.at - observed.time >= ConfiguredTTL(configFile)

\* C12: a validation run that finds a persisted profile older than the TTL
\* does not score against it: with --auto-analyze the profile is rebuilt (the
\* run uses a full profile analyzed at the time of the run), without it the
\* run proceeds with no profile, as if the cache file were absent.
C12_StaleProfileIsCacheMiss ==
    (mode = "cli" /\ results.present /\ ReadStale) =>
        IF options.autoAnalyze
        THEN patterns = "profile" /\ cacheTime = observed.at
        ELSE patterns = "empty"

\* cache contents that are no profile: text that does not parse, null, a
\* value with neither patterns nor analyzed_at, an object without patterns
NotAProfile == {"corrupt", "null", "bare", "dated"}

\* what the last analyzer run would have returned had the cache been absent
AnalyzedWithoutCache ==
    LET out == analyzeCodebase(Cwd, "absent", 0, NoRoot, observed.at, configFile, options)
    IN [present |-> TRUE, profile |-> out.profile, analyzed_at |-> out.analyzed_at,
        rebuilt |-> out.rebuilt, saved |-> out.saved]

\* what the last validator run would have done had the cache been absent
ValidatedWithoutCache ==
    main([threshold |-> Absent, iteration |-> Absent, maxIterations |-> Absent,
          autoAnalyze |-> options.autoAnalyze, files |-> <<"a.js">>, help |-> FALSE],
         [disk |-> disk, configFile |-> configFile, cacheFile |-> "absent",
          cacheTime |-> 0, cacheRoot |-> NoRoot, now |-> observed.at, analyzer |-> "ok",
          gitDiff |-> [ok |-> TRUE, files |-> <<>>]])

\* C13: whatever the cache file holds that is no profile (unparsable text,
\* null, a value without patterns or analyzed_at), an analyzer run and a
\* validator run that load it do not fail (no exit code 2) and return what
\* they return when the cache file is absent: the same profile, the same
\* summary, file reports and exit code.
C13_InvalidCacheAsAbsent ==
    observed.content \in NotAProfile =>
        /\ mode = "analyzer" => results = AnalyzedWithoutCache
        /\ mode = "cli" => /\ exitCode # 2
                           /\ exitCode = ValidatedWithoutCache.exitCode
                           /\ results = ValidatedWithoutCache.results

\* C15: whatever its options, an analyzeCodebase run that saves the cache
\* leaves in it a profile with all six pattern categories (naming, structure,
\* imports, error handling, comments, testing).
C15_SavedCacheIsFull ==
    (mode = "analyzer" /\ results.saved) => CategoriesOf(cacheFile) = Categories

\* C14: under any interleaving of a process saving the cache and a process
\* loading it, and when the writer is killed while saving, what the reader
\* gets is a complete cache content, the one before the save or the one
\* being saved, never an empty or partly written file.
C14_ReaderSeesWholeCache ==
    mode = "cli" =>
        /\ observed.content \notin {"truncated", "torn"}
        /\ writer.pc # "idle" =>
              \/ observed = [content |-> writer.previous.content,
                             time |-> writer.previous.time, at |-> observed.at]
              \/ observed = [content |-> writer.data, time |-> writer.time,
                             at |-> observed.at]

----------------------------------------------------------------------------
(* Properties of file collection *)

\* the file limit the configuration asks for: 500 when it names none
ConfiguredLimit(cfg) == IF IsInt(cfg.maxFiles) THEN cfg.maxFiles.val ELSE DefaultMaxFiles

\* the depth of the directory that holds the file: 0 for the project root
DirDepth(f) == Len(f) - 1

\* what collectFiles returns when no file limit is configured
Unlimited == collectFiles(tree, [config EXCEPT !.maxFiles = Undefined])

\* C16: for every tree and every configured file limit, collectFiles returns
\* at most that many records, returns no file whose directory lies deeper
\* than the depth limit of 10, and what it returns when a limit is reached is
\* the list collected up to there (a prefix of the unlimited collection).
C16_WithinLimits ==
    mode = "collector" =>
        /\ Len(collected) <= ConfiguredLimit(config)
        /\ \A i \in 1..Len(collected) : DirDepth(collected[i]) <= MaxWalkDepth
        /\ Len(collected) <= Len(Unlimited)
        /\ collected = SubSeq(Unlimited, 1, Len(collected))

\* the directories above the file, as names
DirNames(f) == {f[k] : k \in 1..(Len(f) - 1)}

\* the directories above the file, as paths, the project root included
DirPaths(f) == {SubSeq(f, 1, k) : k \in 0..(Len(f) - 1)}

\* C17: for every skipDirectories configuration, the empty one included, no
\* returned record lies under a directory whose name begins with '.' or is an
\* entry of skipDirectories.
C17_SkippedDirsPruned ==
    mode = "collector" =>
        \A i \in 1..Len(collected) :
            \A name \in DirNames(collected[i]) :
                ~StartsWithDot(name) /\ name \notin config.skipDirs

\* the file is not excluded: no directory above it is hidden or listed in
\* skipDirectories, and its name matches no skip pattern
NotExcluded(f) ==
    /\ \A name \in DirNames(f) : ~StartsWithDot(name) /\ name \notin config.skipDirs
    /\ ~shouldSkipFile(f[Len(f)], config.skipFiles)

\* C18: when reading a directory fails, collectFiles still returns a list,
\* and unless the file limit was reached that list holds every non-excluded
\* file within the depth limit whose directories, up to the root, can all be
\* read.
C18_UnreadableDirContained ==
    (mode = "collector" /\ Len(collected) < ConfiguredLimit(config)) =>
        \A f \in tree.files :
            (/\ NotExcluded(f)
             /\ DirDepth(f) <= MaxWalkDepth
             /\ DirPaths(f) \cap tree.unreadable = {})
            => \E i \in 1..Len(collected) : collected[i] = f

\* a directory could not be read and a file of a directory listed after it
\* was collected
C18_Witness ==
    /\ mode = "collector"
    /\ tree.unreadable = {Chain(1)}
    /\ Append(Chain(MaxWalkDepth), "x.js") \in tree.files
    /\ \E i \in 1..Len(collected) : collected[i] = <<"lib", "b.js">>

----------------------------------------------------------------------------
(* Properties of the batch *)

\* C19: for every input file list, the summary's files list has as many
\* reports as the input has entries, and its i-th report is the report of the
\* i-th input file: nothing is dropped, duplicated or reordered.
C19_ReportsInInputOrder ==
    results.present =>
        /\ Len(results.files) = Len(options.files)
        /\ \A i \in 1..Len(options.files) :
              /\ results.files[i].file = options.files[i]
              /\ results.files[i] =
                    validateFile(options.files[i], disk[options.files[i]],
                                 config, patterns, options)

\* a list that names b.js twice around a.js, b.js passing and a.js failing
C19_Witness ==
    /\ results.present
    /\ options.files = <<"b.js", "a.js", "b.js">>
    /\ results.files[1].passed /\ ~results.files[2].passed /\ results.files[3].passed

----------------------------------------------------------------------------
(* Properties of the summary of validateFiles *)

\* the sum of the reports' overall scores
TotalOfReports == SumSeq([i \in 1..Len(results.files) |-> results.files[i].overall_score])

\* avg is the integer nearest to total / n, the upper one of two equally near
NearestInteger(avg, total, n) ==
    /\ 2 * n * avg - n <= 2 * total
    /\ 2 * total < 2 * n * avg + n

\* C27: in a summary returned by validateFiles, passed + failed = total_files
\* = the number of reports; all_passed iff failed = 0 iff every report
\* passed; average_score is the rounded mean of the reports' overall scores,
\* 0 for an empty list
C27_SummaryConsistent ==
    results.present =>
        /\ results.summary.passed + results.summary.failed = results.summary.total_files
        /\ results.summary.total_files = Len(results.files)
        /\ results.summary.all_passed <=> results.summary.failed = 0
        /\ results.summary.failed = 0
             <=> \A i \in 1..Len(results.files) : results.files[i].passed
        /\ IF Len(results.files) = 0 THEN results.summary.average_score = 0
           ELSE NearestInteger(results.summary.average_score, TotalOfReports,
                               Len(results.files))

\* a summary over three reports, some passed and some failed, whose mean is
\* rounded up
C27_Witness ==
    /\ results.present
    /\ Len(results.files) = 3
    /\ results.summary.passed > 0
    /\ results.summary.failed > 0
    /\ 3 * results.summary.average_score > TotalOfReports

\* the summary of an empty file list
C27_WitnessEmpty ==
    results.present /\ Len(results.files) = 0 /\ results.summary.all_passed

----------------------------------------------------------------------------
(* Properties of the pattern profiles *)

\* how many of the counted samples fall in class k
ClassCount(keys, k) == Cardinality({i \in 1..Len(keys) : keys[i] = k})

\* the size of the largest class
LargestClass(keys) ==
    CHOOSE m \in {ClassCount(keys, keys[i]) : i \in 1..Len(keys)} :
        \A i \in 1..Len(keys) : ClassCount(keys, keys[i]) <= m

\* the style classes of the import paths analyzeImportPatterns sampled
SampledStyles(files) ==
    LET paths == Flatten([i \in 1..Len(ImportSampleFiles(files)) |->
                    [k \in 1..Len(ImportsOf(ImportSampleFiles(files)[i].lines)) |->
                        ImportsOf(ImportSampleFiles(files)[i].lines)[k].path]])
    IN [k \in 1..Len(paths) |-> ProfilerImportStyle(paths[k])]

\* confidence is largest / total, positive and at most 1, and 1 when the
\* samples are all of one class
ShareOfLargest(confidence, keys) ==
    /\ confidence.num = LargestClass(keys)
    /\ confidence.den = Len(keys)
    /\ 0 < confidence.num /\ confidence.num <= confidence.den
    /\ (\A i \in 1..Len(keys) : keys[i] = keys[1]) => confidence.num = confidence.den

\* C21: every dominant pattern of a profile has confidence = (largest class
\* count) / (total samples), with 0 < confidence <= 1 and confidence = 1 when
\* all samples are of one class; a category without samples has no dominant
\* entry
C21_ConfidenceIsLargestShare ==
    outcome.present =>
        IF outcome.category = "naming"
        THEN \A i \in 1..Len(NamingCategories) :
                LET c == NamingCategories[i]
                    keys == CountedKeys(sample.files, c)
                IN IF keys = <<>> THEN c \notin DOMAIN outcome.value.dominant
                   ELSE /\ c \in DOMAIN outcome.value.dominant
                        /\ outcome.value.dominant[c].total_samples = Len(keys)
                        /\ ShareOfLargest(outcome.value.dominant[c].confidence, keys)
        ELSE LET keys == SampledStyles(sample.files)
             IN IF keys = <<>> THEN ~outcome.value.dominant_style.present
                ELSE /\ outcome.value.dominant_style.present
                     /\ ShareOfLargest(outcome.value.dominant_style.confidence, keys)

\* a naming profile with a split category, a category of one class and a
\* category without samples
C21_Witness ==
    /\ outcome.present /\ outcome.category = "naming"
    /\ "files" \in DOMAIN outcome.value.dominant
    /\ outcome.value.dominant["files"].confidence = [num |-> 2, den |-> 3]
    /\ "classes" \in DOMAIN outcome.value.dominant
    /\ outcome.value.dominant["classes"].confidence.num
         = outcome.value.dominant["classes"].confidence.den
    /\ "variables" \notin DOMAIN outcome.value.dominant

\* the classes of a naming category in their enumeration order: the keys the
\* count table is written with, then UPPER_CASE where detectCase can add it
ClassOrder(category) ==
    CASE category = "files" ->
           <<"camelCase", "PascalCase", "snake_case", "kebab-case", "other", "UPPER_CASE">>
      [] category = "functions" ->
           <<"camelCase", "PascalCase", "snake_case", "other", "UPPER_CASE">>
      [] category = "variables" ->
           <<"camelCase", "PascalCase", "snake_case", "UPPER_CASE", "other">>
      [] category = "classes" -> <<"PascalCase", "other">>
      [] category = "constants" -> <<"UPPER_CASE", "other">>

\* the first class, in the enumeration order, among those of the largest count
FirstOfLargest(category, keys) ==
    LET order == ClassOrder(category)
        k == CHOOSE i \in 1..Len(order) :
                /\ ClassCount(keys, order[i]) = LargestClass(keys)
                /\ \A j \in 1..(i - 1) : ClassCount(keys, order[j]) < LargestClass(keys)
    IN order[k]

\* the same files in another order
Reorderings(files) ==
    {[i \in 1..Len(files) |-> files[p[i]]] :
        p \in {q \in [1..Len(files) -> 1..Len(files)] :
                  \A i, j \in 1..Len(files) : q[i] = q[j] => i = j}}

\* C26: in every naming category with a sample, the dominant pattern is a
\* class of the largest count, the first such class in the category's
\* enumeration order, and it is the same in whatever order the files were
\* collected
C26_DominantIsFirstLargest ==
    (outcome.present /\ outcome.category = "naming") =>
        /\ \A c \in DOMAIN outcome.value.dominant :
              \E keys \in {CountedKeys(sample.files, c)} :
                  /\ ClassCount(keys, outcome.value.dominant[c].pattern) = LargestClass(keys)
                  /\ outcome.value.dominant[c].pattern = FirstOfLargest(c, keys)
        /\ \A reordered \in {analyzeNamingPatterns(other).dominant :
                                other \in Reorderings(sample.files)} :
              /\ DOMAIN reordered = DOMAIN outcome.value.dominant
              /\ \A c \in DOMAIN reordered :
                    reordered[c].pattern = outcome.value.dominant[c].pattern

\* two file-name classes share the largest count and the one that is later in
\* the enumeration order was met first
C26_Witness ==
    /\ outcome.present /\ outcome.category = "naming"
    /\ Len(sample.files) = 2
    /\ detectCase(sample.files[1].base) = "UPPER_CASE"
    /\ detectCase(sample.files[2].base) = "other"
    /\ outcome.value.dominant["files"].pattern = "other"

----------------------------------------------------------------------------
(* Properties of the scores of one file *)

\* a file whose only finding is one hardcoded credential
OneSecret == [Clean EXCEPT !.critical = 1]

\* validateFile was called under the default weights on such a file
ScoredOneSecret ==
    /\ report.present
    /\ config = getDefaultConfig
    /\ disk["a.js"] = File("ok", OneSecret)

\* the overall score of the same file without the credential
WithoutTheSecret ==
    validateFile("a.js", File("ok", Clean), config, patterns, options).overall_score

\* C22 as stated: under the default weights one critical security match gives
\* security score 75 and an overall score at least 6.25 points below that of
\* the same file without the match
C22_SecretCostsQuarterOfDeduction ==
    ScoredOneSecret =>
        /\ report.file.scores["security"] = 75
        /\ 100 * (WithoutTheSecret - report.file.overall_score) >= 625

\* C22 as amended: under the default weights one critical security match gives
\* security score 75 and an overall score of 94, 6 points below the 100 of the
\* same file without the match
C22_SecretCostsSixPoints ==
    ScoredOneSecret =>
        /\ report.file.scores["security"] = 75
        /\ WithoutTheSecret = 100
        /\ report.file.overall_score = WithoutTheSecret - 6

C22_Witness ==
    /\ ScoredOneSecret
    /\ ~report.file.error
    /\ report.file.subscores["security"] = <<75>>
    /\ report.file.overall_score = 94

----------------------------------------------------------------------------
(* Properties of the naming validator *)

\* the dominant patterns validateNaming was given
GivenDominant == DominantOf(profile)

\* the issues of a severity in a report
IssuesOf(rep, severity) == SelectSeq(rep.issues, LAMBDA i : i.severity = severity)

\* the report deducts 15 for the file name and reports it once, as medium
FileNameReported ==
    /\ outcome.value.score
         = Max(0, 100 - 15 - 5 * Len(IssuesOf(outcome.value, "low")))
    /\ Len(IssuesOf(outcome.value, "medium")) = 1
    /\ IssuesOf(outcome.value, "medium")[1].type = "naming"
    /\ IssuesOf(outcome.value, "medium")[1].current = sample.base

\* C23 as stated: when the dominant file-naming pattern has confidence >= 0.7
\* and the case class of the base name differs from it, validateNaming deducts
\* 15 and reports exactly one medium naming issue for the file name
C23_FileNameMismatchDeducted ==
    (/\ outcome.present
     /\ Confident(GivenDominant, "files")
     /\ detectCase(sample.base) # GivenDominant["files"].pattern)
    => FileNameReported

\* C23 as amended: the same, for base names whose case class is not 'other'
C23_DetectedMismatchDeducted ==
    (/\ outcome.present
     /\ Confident(GivenDominant, "files")
     /\ detectCase(sample.base) # GivenDominant["files"].pattern
     /\ detectCase(sample.base) # "other")
    => FileNameReported

\* a camelCase file against a confident PascalCase profile, with function
\* issues beside the file issue
C23_Witness ==
    /\ outcome.present
    /\ Confident(GivenDominant, "files")
    /\ GivenDominant["files"].pattern = "PascalCase"
    /\ detectCase(sample.base) = "camelCase"
    /\ Len(IssuesOf(outcome.value, "low")) = 2
    /\ outcome.value.score = 75

\* the current name an issue is about, with its extension when it is a file
CurrentName(issue) ==
    IF issue.of = "file" THEN issue.current \o ExtText(sample.ext) ELSE issue.current

\* C30: validateNaming reports no file base name or function name that
\* satisfies the rule of the profile's dominant case class, and the name
\* suggested in an issue differs from the current name
C30_NoIssueForConformingName ==
    (outcome.present /\ "issues" \in DOMAIN outcome.value /\ "base" \in DOMAIN sample)
    => \A k \in 1..Len(outcome.value.issues) :
          /\ outcome.value.issues[k].type = "naming"
               => /\ ~CaseRule(outcome.value.issues[k].expected,
                               outcome.value.issues[k].current)
                  /\ outcome.value.issues[k].suggested
                       # CurrentName(outcome.value.issues[k])

----------------------------------------------------------------------------
(* Properties of the import validator *)

\* the file has more than 3 import lines and no gap between two consecutive ones
OneBlockOfImports ==
    /\ sample.ext \in ModuleExtensions
    /\ Len(ImportLinesOf(sample.lines)) > 3
    /\ \A i \in 2..Len(ImportLinesOf(sample.lines)) :
          ImportLinesOf(sample.lines)[i] = ImportLinesOf(sample.lines)[i - 1] + 1

UngroupedIssues ==
    SelectSeq(outcome.value.issues, LAMBDA i : i.current = "ungrouped")

\* C24: when the profile has import grouping detected and a module file has
\* more than 3 import lines in one block, validateImports deducts 5 and
\* reports an ungrouped-imports issue, whatever the profile's dominant import
\* style and its confidence
C24_UngroupedImportsDeducted ==
    (/\ outcome.present
     /\ ImportPatternsOf(profile).grouping.detected
     /\ OneBlockOfImports)
    => /\ Len(UngroupedIssues) = 1
       /\ outcome.value.score = 100 - 5 - 10 * (Len(outcome.value.issues) - 1)

----------------------------------------------------------------------------
(* Properties of the maintainability validator *)

\* the brace balance after line k, the balance before line 1 being 0
RECURSIVE Balance(_, _, _)
Balance(lines, lo, hi) ==
    IF lo > hi THEN 0
    ELSE IF lo = hi THEN CountChar(lines[lo], "{") - CountChar(lines[lo], "}")
    ELSE Balance(lines, lo, (lo + hi) \div 2) + Balance(lines, (lo + hi) \div 2 + 1, hi)

\* the lines that hold a brace
BraceLines(lines) == {i \in 1..Len(lines) : lines[i].braces # <<>>}

\* the greatest brace balance reached at the end of a line, 0 when it never
\* rises above 0; the balance changes on lines that hold a brace only
PeakDepth(lines) ==
    LET reached == {Balance(lines, 1, k) : k \in BraceLines(lines)} \cup {0}
    IN CHOOSE d \in reached : \A e \in reached : e <= d

SizeDeduction ==
    IF Len(sample.lines) > 500 THEN 15 ELSE IF Len(sample.lines) > 300 THEN 5 ELSE 0

NestingDeduction ==
    IF PeakDepth(sample.lines) > 5 THEN 15
    ELSE IF PeakDepth(sample.lines) > 4 THEN 5 ELSE 0

LongLineDeduction ==
    Min(10, 2 * Cardinality({i \in 1..Len(sample.lines) : sample.lines[i].length > 120}))

\* C25: the maintainability sub-score of a content is 100 minus the size
\* deduction (15 above 500 lines, else 5 above 300), minus the nesting
\* deduction (15 when the peak of the running brace balance over the lines is
\* above 5, else 5 when above 4), minus min(10, 2 x lines longer than 120
\* characters); it is never below 60
C25_MaintainabilityScore ==
    (outcome.present /\ ~profile.present /\ "lines" \in DOMAIN sample
        /\ "score" \in DOMAIN outcome.value /\ "ext" \notin DOMAIN sample)
    => /\ outcome.value.score = 100 - SizeDeduction - NestingDeduction - LongLineDeduction
       /\ outcome.value.score >= 60

\* a content of more than 500 lines whose brace balance dips below 0 and then
\* peaks above 5, with more than 5 long lines: every deduction at its largest
C25_Witness ==
    /\ outcome.present /\ ~profile.present /\ "ext" \notin DOMAIN sample
    /\ Len(sample.lines) > 500
    /\ CountChar(sample.lines[1], "}") = 1
    /\ PeakDepth(sample.lines) > 5
    /\ LongLineDeduction = 10
    /\ outcome.value.score = 60

----------------------------------------------------------------------------
(* Properties of the analyzer over several projects *)

\* C28: the profile analyzeCodebase(projectRoot) returns has project_root
\* equal to the projectRoot argument of that call, after any sequence of calls
\* on different project roots that share one cache path
C28_ProfileOfRequestedRoot ==
    (outcome.present /\ "projectRoot" \in DOMAIN outcome)
        => outcome.value.project_root = outcome.projectRoot

----------------------------------------------------------------------------
(* Properties of the two classifications of an import path *)

\* the style classes a count table counted the one import under
CountedUnder(table) == {table[i].key : i \in {j \in 1..Len(table) : table[j].count > 0}}

\* C29: the style class analyzeImportPatterns counts an import path under and
\* the class validateImports counts it under are the same, for every path
C29_SameStyleClass ==
    (outcome.present /\ profile.present /\ "status" \in DOMAIN sample)
        => /\ outcome.value.scanned
           /\ CountedUnder(outcome.value.currentFileStyle)
                = CountedUnder(profile.imports.style)

====
